---------------------------- MODULE Spec2Model ----------------------------
(***************************************************************************)
(* File-processing state machine of the OCR pipeline.                      *)
(*                                                                         *)
(* State: the `files` table (database/models.py File), the wall clock,     *)
(* one SQLAlchemy session / handler invocation per worker, the OCR queue,  *)
(* and the frame of a stage or chunking function run on its own.  History  *)
(* variables: runs (pipeline runs begun per existing file), moved (updates *)
(* to 'processing' committed per file), db_failed (a status write of a     *)
(* handler met a database failure).                                        *)
(*                                                                         *)
(* The specifications share the state:                                     *)
(*   Spec        the application handlers of function_app.py: the queue    *)
(*               trigger process_ocr_queue / process_document_from_queue   *)
(*               and the HTTP handler process_document, run by concurrent  *)
(*               workers, every status write going through                 *)
(*               crud.update_file_status;                                  *)
(*   SpecCrud    crud.update_file_status called directly (as               *)
(*               database/test_db.py and the integration tests do) by      *)
(*               concurrent workers on one file;                           *)
(*   SpecSelect  one caller of create_file, update_file_status and         *)
(*               get_failed_files over two files, with the clock running;  *)
(*   SpecRetry   upload, queue delivery and the periodic retry sweep;      *)
(*   SpecEmbed   the per-chunk embedding loop;                             *)
(*   SpecIndex   the upload loops of function_app.py and vector_db.py;     *)
(*   SpecChunk   ChunkingService._chunk_paragraphs;                        *)
(*   SpecHybrid  chunk_document run twice on one document object;          *)
(*   SpecReindex the chunk, embed and upload stages run twice on one file; *)
(*   SpecTable   ChunkingService._chunk_tables and _table_to_text;         *)
(*   SpecItems   chunk_document over the items of structured content;      *)
(*   SpecNormalize the table grid built by extract_document_content and    *)
(*               by TableExtractor._organize_table_cells;                  *)
(*   SpecTenant  the indexing and search handlers called by two users;     *)
(*   SpecAnalyze DocumentIntelligenceClient's analyze retry loop;          *)
(*   SpecText    chunk_text of function_app.py;                            *)
(*   SpecSplit   TextChunker._split_text, one loop iteration per step.     *)
(*                                                                         *)
(* crud.update_file_status is a read-modify-write on an ORM object: the    *)
(* row is SELECTed into the session (UfsRead), changed in memory, and the  *)
(* changed columns are UPDATEd at db.commit() (UfsCommit).  Sessions of    *)
(* different workers interleave between the two steps (PostgreSQL default  *)
(* isolation, database/connection.py).  The updated_at column is written   *)
(* on every update and read by nothing; it is not part of the state.       *)
(***************************************************************************)
EXTENDS Integers, FiniteSets, Sequences, TLC

VARIABLES files, now, sess, runs, moved, db_failed, selection, queue, frame

vars == <<files, now, sess, runs, moved, db_failed, selection, queue, frame>>

---------------------------------------------------------------------------
(* Bounds *)

MaxTime == 2
MaxMoves == 4
MaxChunks == 2
MaxRuns == 2
MaxPublished == 5
MaxEmbedChunks == 5
MaxBatches == 3
MaxParagraphs == 3
MaxPage == 2
MaxHybridParagraphs == 2
MaxCells == 4
MaxItems == 2
MaxSpan == 2
MaxKeys == 2
MaxMockDocs == 1
MaxTextLen == 6
MaxIterations == 5

Workers == {"w1", "w2"}
FileIds == {1, 2}
\* the file id the handlers' messages and requests name; its row exists
\* once the upload has created it, before that the id is unknown
UploadedIds == {1}

---------------------------------------------------------------------------
(* Values *)

\* Python None for a Text column / str argument
None == "<None>"
\* NULL for the nullable DateTime columns; the clock starts above it
NullTime == 0
\* file_id of a request that carries none
NoFileId == 0

Statuses == {"queued", "processing", "complete", "error"}
\* test_db.py writes 'completed', the handlers write 'complete'
ApiStatuses == Statuses \cup {"completed"}

\* a metadata argument / column value: a JSON dict, a str, or None
Dict(keys) == [type |-> "dict", keys |-> keys, text |-> ""]
Str(s) == [type |-> "str", keys |-> {}, text |-> s]
NoMetadata == [type |-> "none", keys |-> {}, text |-> ""]
\* Python truthiness of `metadata` in `if metadata:`
Truthy(m) == \/ m.type = "dict" /\ m.keys # {}
             \/ m.type = "str" /\ m.text # ""

\* stringified causes, str(e)
MissingContainerMsg == "Missing required environment variable: BLOB_CONTAINER_NAME"
MissingDeploymentMsg == "Missing required environment variable: AZURE_OPENAI_EMBEDDING_DEPLOYMENT"
GetFileTypeError == "get_file() takes 2 positional arguments but 3 were given"
DbError == "database error"
OcrError == "document analysis failed"
ChunkError == "chunking failed"
OpenAIConfigError == "Azure OpenAI credentials not fully configured"
SearchConfigError == "Azure AI Search credentials not fully configured"
JsonError == "Expecting value: line 1 column 1 (char 0)"
\* an exception raised without a message: str(e) == ''
EmptyError == ""

---------------------------------------------------------------------------
(* State *)

\* database/models.py File: a row of the `files` table
NoFile == [exists |-> FALSE, status |-> "queued", attempts |-> 0,
           last_attempt_at |-> NullTime, created_at |-> NullTime,
           processed_at |-> NullTime, error_message |-> None,
           file_metadata |-> Dict({})]

\* a worker between invocations: no handler running, no session open
IdleSession == [pc |-> "idle", handler |-> "none", site |-> "none",
                file_id |-> NoFileId, status |-> "queued",
                metadata |-> NoMetadata, error_message |-> None,
                loaded |-> 0, exc |-> None, db_error |-> None,
                result |-> "none",
                finalized |-> FALSE, chunks |-> 0, vectors |-> 0,
                indexed |-> 0]

\* the value get_failed_files last returned, with its arguments; none yet
NoSelection == [called |-> FALSE, max_attempts |-> 0, cutoff_time |-> NullTime,
                result |-> {}]

\* the rows that exist
Existing == {f \in FileIds : files[f].exists}

\* the OCR queue: per file id, the messages waiting for delivery and the
\* messages published so far; nothing published yet
NoQueue == [f \in FileIds |-> [pending |-> 0, published |-> 0]]

\* the frame of a function checked on its own (a chunking strategy, the
\* embedding loop, the upload loop): none
NoFrame == [fn |-> "none", pc |-> "none"]

\* an empty database, idle workers
InitPipeline == /\ files = [f \in FileIds |-> NoFile]
                /\ now = 1
                /\ sess = [w \in Workers |-> IdleSession]
                /\ runs = [f \in FileIds |-> 0]
                /\ moved = [f \in FileIds |-> 0]
                /\ db_failed = FALSE
                /\ selection = NoSelection
                /\ queue = NoQueue

Init == InitPipeline /\ frame = NoFrame

\* datetime.utcnow() advances between any two steps
Tick == /\ now < MaxTime
        /\ now' = now + 1
        /\ selection' = NoSelection
        /\ UNCHANGED <<files, sess, runs, moved, db_failed, queue, frame>>

\* crud.create_file: the next serial id among `ids`, status 'queued', the
\* column defaults of models.File
\* (whether a queue message is published with it is the caller's business)
create_file(ids) ==
    /\ ids \ Existing # {}
    /\ LET f == CHOOSE g \in ids \ Existing :
                    \A h \in ids \ Existing : g <= h
       IN files' = [files EXCEPT ![f] =
                       [exists |-> TRUE, status |-> "queued", attempts |-> 0,
                        last_attempt_at |-> NullTime, created_at |-> now,
                        processed_at |-> NullTime, error_message |-> None,
                        file_metadata |-> Dict({})]]
    /\ selection' = NoSelection
    /\ UNCHANGED <<now, sess, runs, moved, db_failed, frame>>

---------------------------------------------------------------------------
(* crud.update_file_status *)

\* crud.update_file_status, the assignments made on the loaded ORM object:
\* `row` is the row as stored, `loaded` the attempts value the session read
update_file_status(row, loaded, status, metadata, error_message, t) ==
    LET r1 == [row EXCEPT !.status = status]
        r2 == IF status = "processing"
              THEN [r1 EXCEPT !.attempts = loaded + 1, !.last_attempt_at = t]
              ELSE r1
        r3 == IF status = "completed"
              THEN [r2 EXCEPT !.processed_at = t]
              ELSE r2
        r4 == IF status = "error"
              THEN [r3 EXCEPT !.error_message = error_message]
              ELSE r3
    IN IF Truthy(metadata) THEN [r4 EXCEPT !.file_metadata = metadata] ELSE r4

\* a call crud.update_file_status(db, file_id, status, metadata, error_message)
\* made at call site `site`: the session is about to load the row
Call(s, file_id, status, metadata, error_message, site) ==
    [s EXCEPT !.pc = "ufs_read", !.file_id = file_id, !.status = status,
              !.metadata = metadata, !.error_message = error_message,
              !.site = site]

\* the handlers pass the cause as the fourth positional argument, which is
\* the parameter `metadata`; error_message keeps its default None
CallPositional(s, file_id, status, fourth, site) ==
    Call(s, file_id, status, Str(fourth), None, site)

\* the handlers' three-argument call: metadata and error_message default
CallStatusOnly(s, file_id, status, site) ==
    Call(s, file_id, status, NoMetadata, None, site)

\* the invocation is over: the session is closed and the locals are gone;
\* the worker is idle again and keeps the handler's outcome and the
\* exceptions it caught (`e`, `db_error`) until its next invocation
Finish(s, result) ==
    [IdleSession EXCEPT !.handler = s.handler, !.result = result,
                        !.exc = s.exc, !.db_error = s.db_error]

\* a handler that lets the exception pass to its caller
Reraise(exc) == "raised"

\* process_ocr_queue: `except Exception as e: logger.error(...)` around the
\* whole body, so whatever is raised inside is logged and the trigger returns
process_ocr_queue_except(exc) == "returned"

\* process_document_from_queue: the status write in the except block is
\* itself inside `try: ... except Exception as db_error`, which logs it; the
\* function then returns to process_ocr_queue.  An exception this block let
\* pass would reach the except clause of process_ocr_queue.
status_write_except(exc) == "caught"

\* the outcome of the trigger when the status write of the except block raises
StatusWriteRaised(exc) ==
    IF status_write_except(exc) = "caught"
    THEN "returned"
    ELSE process_ocr_queue_except(exc)

\* where control goes when update_file_status returns, by call site (a
\* direct caller of the API keeps nothing of the call)
AfterReturn(s) ==
    CASE s.site = "q_env" -> Finish(s, "returned")
      [] s.site = "q_except" -> Finish(s, "returned")
      [] s.site = "http_err" -> Finish(s, "http_500")
      [] s.site = "http_complete" -> Finish(s, "http_200")
      [] s.site = "api" -> IdleSession

\* where control goes when update_file_status (or get_db_session) raises
AfterRaise(s, exc) ==
    CASE s.site = "q_env" -> [s EXCEPT !.pc = "q_except", !.exc = exc]
      [] s.site = "q_except" ->
            Finish([s EXCEPT !.db_error = exc], StatusWriteRaised(exc))
      [] s.site = "http_err" -> Finish(s, "http_500")
      [] s.site = "http_complete" -> Finish(s, "http_200")
      [] s.site = "api" -> IdleSession

\* get_db_session() and get_file(db, file_id): the SELECT.  The database may
\* be unreachable; an unknown id gives None and the update is skipped.
UfsRead(w) ==
    /\ sess[w].pc = "ufs_read"
    /\ LET s == sess[w] IN
        \/ /\ sess' = [sess EXCEPT ![w] = AfterRaise(s, DbError)]
           /\ db_failed' = (db_failed \/ s.site # "api")
        \/ /\ ~files[s.file_id].exists
           /\ sess' = [sess EXCEPT ![w] = AfterReturn(s)]
           /\ UNCHANGED db_failed
        \/ /\ files[s.file_id].exists
           /\ sess' = [sess EXCEPT ![w] =
                         [s EXCEPT !.pc = "ufs_commit",
                                   !.loaded = files[s.file_id].attempts]]
           /\ UNCHANGED db_failed
    /\ UNCHANGED <<files, now, runs, moved, selection, queue, frame>>

\* db.commit(): the UPDATE of the assigned columns
UfsCommit(w) ==
    /\ sess[w].pc = "ufs_commit"
    /\ LET s == sess[w] IN
        /\ files' = [files EXCEPT ![s.file_id] =
                       update_file_status(files[s.file_id], s.loaded, s.status,
                                          s.metadata, s.error_message, now)]
        /\ sess' = [sess EXCEPT ![w] = AfterReturn(s)]
        /\ moved' = IF s.status = "processing"
                    THEN [moved EXCEPT ![s.file_id] = @ + 1] ELSE moved
    /\ UNCHANGED <<now, runs, selection, db_failed, queue, frame>>

---------------------------------------------------------------------------
(* Queue trigger: process_ocr_queue -> process_document_from_queue *)

\* queue message bodies: not JSON, JSON without the required fields, or a
\* complete message naming a file id (the row may or may not exist)
Messages == {[kind |-> "malformed", file_id |-> NoFileId],
             [kind |-> "missing_fields", file_id |-> NoFileId]}
            \cup {[kind |-> "valid", file_id |-> f] : f \in UploadedIds}

\* parameters of crud.get_file(db, file_id)
GetFileParams == 2

\* a positional call of crud.get_file with `nargs` arguments
get_file_call(nargs) == IF nargs = GetFileParams THEN "row" ELSE GetFileTypeError

\* One delivery of a message to a worker, up to the first status write (the
\* message's removal from the queue is the host's part of the step).
\* With both environment variables set the handler calls
\* crud.get_file(db, file_id, user_id): three arguments, so the call raises
\* TypeError before the row is read and control passes to the except block
\* of process_document_from_queue.  The statements after that call (status
\* 'processing', download, OCR, chunking, embedding, indexing, 'complete')
\* are therefore never executed by this handler.
process_ocr_queue(w) ==
    /\ sess[w].pc = "idle"
    /\ \E msg \in Messages, container_name \in BOOLEAN, deployment \in BOOLEAN :
        LET s == [IdleSession EXCEPT !.handler = "queue",
                                     !.file_id = msg.file_id]
            f == msg.file_id
        IN
        \/ /\ msg.kind = "malformed"
           /\ sess' = [sess EXCEPT ![w] =
                         Finish(s, process_ocr_queue_except(JsonError))]
           /\ UNCHANGED runs
        \/ /\ msg.kind = "missing_fields"
           /\ sess' = [sess EXCEPT ![w] = Finish(s, "returned")]
           /\ UNCHANGED runs
        \/ /\ msg.kind = "valid"
           /\ ~container_name
           /\ sess' = [sess EXCEPT ![w] =
                         CallPositional(s, f, "error", MissingContainerMsg, "q_env")]
           /\ UNCHANGED runs
        \/ /\ msg.kind = "valid"
           /\ container_name /\ ~deployment
           /\ sess' = [sess EXCEPT ![w] =
                         CallPositional(s, f, "error", MissingDeploymentMsg, "q_env")]
           /\ UNCHANGED runs
        \/ /\ msg.kind = "valid"
           /\ container_name /\ deployment
           /\ get_file_call(3) # "row"
           /\ runs[f] < MaxRuns
           /\ sess' = [sess EXCEPT ![w] =
                         [s EXCEPT !.pc = "q_except", !.exc = get_file_call(3)]]
           /\ runs' = IF files[f].exists THEN [runs EXCEPT ![f] = @ + 1] ELSE runs
    /\ UNCHANGED <<files, now, moved, selection, db_failed, frame>>

\* process_document_from_queue, `except Exception as e`: write status 'error'
\* with str(e), inside a try of its own
QueueExcept(w) ==
    /\ sess[w].pc = "q_except"
    /\ sess' = [sess EXCEPT ![w] =
                  CallPositional(sess[w], sess[w].file_id, "error",
                                 sess[w].exc, "q_except")]
    /\ UNCHANGED <<files, now, runs, moved, selection, db_failed, queue, frame>>

---------------------------------------------------------------------------
(* HTTP handler: process_document *)

\* a stage raised: status 'error' when the request named a file, then 500;
\* the stage results are dropped
HttpFail(s, exc) ==
    LET t == [s EXCEPT !.chunks = 0, !.vectors = 0, !.indexed = 0] IN
    IF s.file_id # NoFileId
    THEN CallPositional(t, s.file_id, "error", exc, "http_err")
    ELSE Finish(t, "http_500")

\* Request validation and the first status write.  With a file_id the
\* handler calls crud.get_file(db, int(file_id), user_id), which raises
\* TypeError; the surrounding try logs it, so the status stays as it was and
\* the handler goes on to the OCR stage.
process_document(w) ==
    /\ sess[w].pc = "idle"
    /\ \E user_id \in BOOLEAN, body \in BOOLEAN, f \in UploadedIds \cup {NoFileId} :
        LET s == [IdleSession EXCEPT !.handler = "http", !.file_id = f] IN
        \/ /\ ~user_id
           /\ sess' = [sess EXCEPT ![w] = Finish(s, "http_401")]
           /\ UNCHANGED runs
        \/ /\ user_id /\ ~body
           /\ sess' = [sess EXCEPT ![w] = Finish(s, "http_400")]
           /\ UNCHANGED runs
        \/ /\ user_id /\ body
           /\ f # NoFileId => get_file_call(3) # "row"
           /\ f # NoFileId => runs[f] < MaxRuns
           /\ sess' = [sess EXCEPT ![w] = [s EXCEPT !.pc = "ocr"]]
           /\ runs' = IF f # NoFileId /\ files[f].exists
                      THEN [runs EXCEPT ![f] = @ + 1] ELSE runs
    /\ UNCHANGED <<files, now, moved, selection, db_failed, queue, frame>>

\* begin_analyze_document(...).result() and extract_document_content
OcrStage(w) ==
    /\ sess[w].pc = "ocr"
    /\ \/ sess' = [sess EXCEPT ![w] = [@ EXCEPT !.pc = "chunk"]]
       \/ \E exc \in {OcrError, EmptyError} :
             sess' = [sess EXCEPT ![w] = HttpFail(@, exc)]
    /\ UNCHANGED <<files, now, runs, moved, selection, db_failed, queue, frame>>

\* ChunkingService().chunk_document: any number of chunks, zero included
ChunkStage(w) ==
    /\ sess[w].pc = "chunk"
    /\ \/ \E n \in 0..MaxChunks :
             sess' = [sess EXCEPT ![w] = [@ EXCEPT !.pc = "embed", !.chunks = n]]
       \/ sess' = [sess EXCEPT ![w] = HttpFail(@, ChunkError)]
    /\ UNCHANGED <<files, now, runs, moved, selection, db_failed, queue, frame>>

\* the embedding loop: a failed call skips its chunk; missing credentials
\* raise ValueError for the whole stage
EmbedStage(w) ==
    /\ sess[w].pc = "embed"
    /\ \/ \E n \in 0..sess[w].chunks :
             sess' = [sess EXCEPT ![w] = [@ EXCEPT !.pc = "index", !.vectors = n]]
       \/ sess' = [sess EXCEPT ![w] = HttpFail(@, OpenAIConfigError)]
    /\ UNCHANGED <<files, now, runs, moved, selection, db_failed, queue, frame>>

\* the upload loop: per-item results are counted (indexed_count, and
\* failed_count = the rest); missing credentials or a failing upload call
\* raise for the whole stage
IndexStage(w) ==
    /\ sess[w].pc = "index"
    /\ \/ \E n \in 0..sess[w].vectors :
             sess' = [sess EXCEPT ![w] = [@ EXCEPT !.pc = "finalize", !.indexed = n]]
       \/ sess' = [sess EXCEPT ![w] = HttpFail(@, SearchConfigError)]
    /\ UNCHANGED <<files, now, runs, moved, selection, db_failed, queue, frame>>

\* every stage returned: status 'complete' when the request named a file
Finalize(w) ==
    /\ sess[w].pc = "finalize"
    /\ LET s == [sess[w] EXCEPT !.finalized = TRUE] IN
        sess' = [sess EXCEPT ![w] =
                   IF s.file_id # NoFileId
                   THEN CallStatusOnly(s, s.file_id, "complete", "http_complete")
                   ELSE Finish(s, "http_200")]
    /\ UNCHANGED <<files, now, runs, moved, selection, db_failed, queue, frame>>

---------------------------------------------------------------------------
(* Specification of the application handlers *)

\* the handlers are driven by any message and any request: duplicates,
\* redeliveries and hand-made messages included, whatever the queue holds
Next == \/ create_file(UploadedIds) /\ UNCHANGED queue
        \/ \E w \in Workers :
              \/ process_ocr_queue(w) /\ UNCHANGED queue
              \/ QueueExcept(w)
              \/ process_document(w)
              \/ OcrStage(w)
              \/ ChunkStage(w)
              \/ EmbedStage(w)
              \/ IndexStage(w)
              \/ Finalize(w)
              \/ UfsRead(w)
              \/ UfsCommit(w)

Spec == Init /\ [][Next]_vars

---------------------------------------------------------------------------
(* The persistence API called directly *)

\* the calls of update_file_status outside the handlers: status only
\* (test_db.py, test_user_ocr.py), 'completed' with a metadata dict
\* (test_db.py), and 'error' with the error_message the docstring describes
ApiCalls ==
    {[status |-> "queued", metadata |-> NoMetadata, error_message |-> None],
     [status |-> "processing", metadata |-> NoMetadata, error_message |-> None],
     [status |-> "completed", metadata |-> Dict({"page_count"}),
      error_message |-> None],
     [status |-> "complete", metadata |-> NoMetadata, error_message |-> None],
     [status |-> "error", metadata |-> NoMetadata, error_message |-> OcrError]}

\* a caller begins crud.update_file_status(db, f, ...) on its own session;
\* at most MaxMoves updates to 'processing' are begun per file
ApiUpdateFileStatus(w, ids, calls) ==
    /\ sess[w].pc = "idle"
    /\ \E f \in ids, c \in calls :
        /\ c.status = "processing" => moved[f] < MaxMoves
        /\ sess' = [sess EXCEPT ![w] =
                      Call([IdleSession EXCEPT !.handler = "api"], f, c.status,
                           c.metadata, c.error_message, "api")]
    /\ selection' = NoSelection
    /\ UNCHANGED <<files, now, runs, moved, db_failed, queue, frame>>

\* the selection with the budget compared by <= instead of <
get_failed_files_inclusive(max_attempts, cutoff_time) ==
    LET query == {f \in Existing : /\ files[f].status = "error"
                                   /\ files[f].attempts <= max_attempts}
    IN IF cutoff_time # NullTime
       THEN {f \in query : files[f].created_at > cutoff_time}
       ELSE query

\* crud.get_failed_files(db, max_attempts, cutoff_time): the query's filters;
\* a cutoff_time of None adds no age filter
get_failed_files(max_attempts, cutoff_time) ==
    LET query == {f \in Existing : /\ files[f].status = "error"
                                   /\ files[f].attempts < max_attempts}
    IN IF cutoff_time # NullTime
       THEN {f \in query : files[f].created_at > cutoff_time}
       ELSE query

\* the default of the parameter max_attempts
DefaultMaxAttempts == 3

\* a caller with no update in flight runs the selection, with the default
\* budget or a smaller one, and with any cutoff or none
GetFailedFiles(w) ==
    /\ sess[w].pc = "idle"
    /\ \E max_attempts \in {DefaultMaxAttempts - 1, DefaultMaxAttempts},
          cutoff_time \in NullTime..MaxTime :
          selection' = [called |-> TRUE, max_attempts |-> max_attempts,
                        cutoff_time |-> cutoff_time,
                        result |-> get_failed_files(max_attempts, cutoff_time)]
    /\ UNCHANGED <<files, now, sess, runs, moved, db_failed, queue, frame>>

\* concurrent callers of update_file_status on one file
NextCrud == \/ create_file(UploadedIds) /\ UNCHANGED queue
            \/ \E w \in Workers :
                  \/ ApiUpdateFileStatus(w, UploadedIds, ApiCalls)
                  \/ UfsRead(w)
                  \/ UfsCommit(w)

SpecCrud == Init /\ [][NextCrud]_vars

\* the statuses the retry selection tells apart
SelectCalls == {c \in ApiCalls : c.status \in Statuses}

\* one caller, two files, the clock running
NextSelect == \/ create_file(FileIds) /\ UNCHANGED queue
              \/ Tick
              \/ ApiUpdateFileStatus("w1", FileIds, SelectCalls)
              \/ UfsRead("w1")
              \/ UfsCommit("w1")
              \/ GetFailedFiles("w1")

SpecSelect == Init /\ [][NextSelect]_vars

---------------------------------------------------------------------------
(* Upload, the OCR queue and the retry sweep *)

\* the retry budget: the default of get_failed_files' max_attempts
MAX_RETRY_ATTEMPTS == DefaultMaxAttempts

\* the age limit of the retry sweep, in ticks of the model's clock
MAX_AGE == 1

\* one more message for file f on the queue
Publish(f) ==
    [queue EXCEPT ![f] = [pending |-> @.pending + 1,
                          published |-> @.published + 1]]

\* upload_file: crud.create_file, then the queue message
\* {file_id, user_id, blob_path} for the new row
upload_file ==
    /\ create_file(UploadedIds)
    /\ queue' = Publish(CHOOSE f \in UploadedIds : ~files[f].exists)

\* the host delivers a waiting message of file f to an idle worker, which
\* runs process_ocr_queue on it
Deliver(w) ==
    \E f \in UploadedIds :
        /\ queue[f].pending > 0
        /\ process_ocr_queue(w)
        /\ sess'[w].file_id = f
        /\ queue' = [queue EXCEPT ![f].pending = @ - 1]

\* The periodic sweep: every file get_failed_files selects for the budget and
\* the age cutoff goes from error back to queued (its error_message is kept
\* for audit) and its queue message is published again.  At most MaxPublished
\* messages per file are published.
RetryScheduler ==
    LET cutoff_time == now - MAX_AGE
        failed == get_failed_files(MAX_RETRY_ATTEMPTS, cutoff_time)
    IN /\ failed # {}
       /\ \A f \in failed : queue[f].published < MaxPublished
       /\ files' = [f \in FileIds |->
                      IF f \in failed
                      THEN update_file_status(files[f], files[f].attempts,
                                              "queued", NoMetadata, None, now)
                      ELSE files[f]]
       /\ queue' = [f \in FileIds |->
                      IF f \in failed
                      THEN [pending |-> queue[f].pending + 1,
                            published |-> queue[f].published + 1]
                      ELSE queue[f]]
       /\ selection' = NoSelection
       /\ UNCHANGED <<now, sess, runs, moved, db_failed, frame>>

\* one file uploaded, processed from the queue by either worker, and retried
\* by the sweep while the clock runs
NextRetry == \/ upload_file
             \/ Tick
             \/ RetryScheduler
             \/ \E w \in Workers :
                   \/ Deliver(w)
                   \/ QueueExcept(w)
                   \/ UfsRead(w)
                   \/ UfsCommit(w)

SpecRetry == Init /\ [][NextRetry]_vars

---------------------------------------------------------------------------
(* The embedding stage: the per-chunk loop of process_document_from_queue *)
(* and process_document                                                    *)

\* the text limit of one embedding request
max_text_length == 8000

\* text lengths of a chunk: within the limit, and over it
TextLengths == {max_text_length, max_text_length + 1}

\* text[:max_text_length], as a length
Truncate(len) == IF len > max_text_length THEN max_text_length ELSE len

\* a chunk as the chunking service returns it: no vector yet (ids are given
\* by position in the chunk list)
Chunk(i, len) == [id |-> i, len |-> len, vector |-> <<>>]

\* response.data[0].embedding for an input text
Embedding(text) == <<"embedding", text>>

\* the locals of the stage before the loop
EmbedStart == [chunks_with_vectors |-> <<>>, processed_count |-> 0,
               errors |-> <<>>, raised |-> FALSE]

\* the loop with a failed call ending the stage: the exception leaves the loop
RECURSIVE EmbedLoopAbort(_, _, _, _)
EmbedLoopAbort(chunks, fails, chunk_index, acc) ==
    IF chunk_index > Len(chunks) THEN acc
    ELSE IF chunk_index \in fails THEN [acc EXCEPT !.raised = TRUE]
    ELSE EmbedLoopAbort(chunks, fails, chunk_index + 1,
            [acc EXCEPT !.chunks_with_vectors =
                            Append(@, [chunks[chunk_index] EXCEPT !.vector =
                                Embedding(Truncate(chunks[chunk_index].len))]),
                        !.processed_count = @ + 1])

\* `for chunk_index, chunk in enumerate(chunks)`: the body is one try block.
\* A call that succeeds stores the vector on the chunk, appends the chunk
\* and counts it; a call that raises is logged (one error line naming the
\* chunk) and the loop goes on with the next chunk.  `fails` are the
\* positions of the chunks whose call raises.
RECURSIVE EmbedLoop(_, _, _, _)
EmbedLoop(chunks, fails, chunk_index, acc) ==
    IF chunk_index > Len(chunks) THEN acc
    ELSE IF chunk_index \in fails
    THEN EmbedLoop(chunks, fails, chunk_index + 1,
            [acc EXCEPT !.errors = Append(@, chunk_index)])
    ELSE EmbedLoop(chunks, fails, chunk_index + 1,
            [acc EXCEPT !.chunks_with_vectors =
                            Append(@, [chunks[chunk_index] EXCEPT !.vector =
                                Embedding(Truncate(chunks[chunk_index].len))]),
                        !.processed_count = @ + 1])

\* a call of the stage that has not run yet
EmbedCall(chunks, fails, configured) ==
    [fn |-> "embed", pc |-> "call", chunks |-> chunks, fails |-> fails,
     configured |-> configured, chunks_with_vectors |-> <<>>,
     processed_count |-> 0, errors |-> <<>>,
     log |-> [embedded |-> 0, total |-> 0]]

\* chunk lists of up to MaxEmbedChunks chunks, any set of failing calls, the
\* OpenAI settings present or not
InitEmbed ==
    /\ InitPipeline
    /\ \E n \in 0..MaxEmbedChunks :
         \E lens \in [1..n -> TextLengths], fails \in SUBSET (1..n),
            configured \in BOOLEAN :
            frame = EmbedCall([i \in 1..n |-> Chunk(i, lens[i])], fails,
                              configured)

\* The stage.  Without the OpenAI settings the client cannot be made and
\* ValueError is raised before the loop.  Otherwise the loop runs over every
\* chunk and the stage logs "generated embeddings for <embedded> of <total>".
EmbeddingStage ==
    /\ frame.fn = "embed" /\ frame.pc = "call"
    /\ LET acc == EmbedLoop(frame.chunks, frame.fails, 1, EmbedStart) IN
        frame' =
          IF ~frame.configured THEN [frame EXCEPT !.pc = "raised"]
          ELSE [frame EXCEPT
                  !.pc = IF acc.raised THEN "raised" ELSE "done",
                  !.chunks_with_vectors = acc.chunks_with_vectors,
                  !.processed_count = acc.processed_count,
                  !.errors = acc.errors,
                  !.log = IF acc.raised THEN @
                          ELSE [embedded |-> Len(acc.chunks_with_vectors),
                                total |-> Len(frame.chunks)]]
    /\ UNCHANGED <<files, now, sess, runs, moved, db_failed, selection, queue>>

SpecEmbed == InitEmbed /\ [][EmbeddingStage]_vars

---------------------------------------------------------------------------
(* The index publisher: the upload loop of process_document_from_queue     *)
(* (and process_document), and VectorDatabase.store_document_chunks        *)

\* documents per upload call
batch_size == 1000

\* document counts around the batch boundaries
DocCounts == {k * batch_size + d : k \in 0..(MaxBatches - 1),
                                   d \in {0, 1, batch_size - 1}}

\* len(range(0, n, batch_size))
NumBatches(n) == (n + batch_size - 1) \div batch_size

\* what one call of search_client.upload_documents does: it raises, or it
\* returns one result per document with all, none, all but one or just one
\* of them succeeded
UploadOutcomes == {"raise", "all", "none", "one_rejected", "one_accepted"}

\* len([r for r in upload_result if r.succeeded]) for a batch of len documents
SuccessCount(outcome, len) ==
    CASE outcome = "all" -> len
      [] outcome = "none" -> 0
      [] outcome = "one_rejected" -> len - 1
      [] outcome = "one_accepted" -> 1

\* the slice taking one document more than batch_size
SliceInclusive(n, i) ==
    [lo |-> i + 1, hi |-> IF i + batch_size + 1 < n THEN i + batch_size + 1 ELSE n]

\* search_documents[i:i + batch_size], as the positions it holds (from 1)
Slice(n, i) ==
    [lo |-> i + 1, hi |-> IF i + batch_size < n THEN i + batch_size ELSE n]

\* the locals of the upload loop before its first iteration
UploadStart == [batches |-> <<>>, indexed_count |-> 0, failed_count |-> 0,
                raised |-> FALSE]

\* function_app.py: `for i in range(0, len(search_documents), batch_size)`.
\* The upload call is not inside a try of the loop: when it raises, the
\* exception leaves the loop (to the except clause of the handler).
\* `batches` are the slices handed to upload_documents, in call order.
RECURSIVE UploadLoop(_, _, _, _)
UploadLoop(n, outcomes, i, acc) ==
    IF i >= n THEN acc
    ELSE LET batch == Slice(n, i)
             len == batch.hi - batch.lo + 1
             outcome == outcomes[Len(acc.batches) + 1]
         IN IF outcome = "raise"
            THEN [acc EXCEPT !.batches = Append(@, batch), !.raised = TRUE]
            ELSE UploadLoop(n, outcomes, i + batch_size,
                    [acc EXCEPT
                       !.batches = Append(@, batch),
                       !.indexed_count = @ + SuccessCount(outcome, len),
                       !.failed_count = @ + (len - SuccessCount(outcome, len))])

\* vector_db.py store_document_chunks: the upload call of each batch is
\* inside try/except, which logs the failure; no counts are kept
RECURSIVE StoreLoop(_, _, _, _)
StoreLoop(n, outcomes, i, acc) ==
    IF i >= n THEN acc
    ELSE StoreLoop(n, outcomes, i + batch_size,
                   [acc EXCEPT !.batches = Append(@, Slice(n, i))])

\* a call of a publisher on n documents that has not run yet
UploadCall(publisher, n, outcomes) ==
    [fn |-> "upload", pc |-> "call", publisher |-> publisher, total |-> n,
     outcomes |-> outcomes, batches |-> <<>>,
     index_result |-> [total_count |-> 0, indexed_count |-> 0,
                       failed_count |-> 0]]

InitIndex ==
    /\ InitPipeline
    /\ \E publisher \in {"function_app", "vector_db"}, n \in DocCounts :
         \E outcomes \in [1..NumBatches(n) -> UploadOutcomes] :
            frame = UploadCall(publisher, n, outcomes)

\* the publisher runs: function_app.py builds index_result after the loop;
\* store_document_chunks returns True
IndexPublisher ==
    /\ frame.fn = "upload" /\ frame.pc = "call"
    /\ LET acc == IF frame.publisher = "function_app"
                  THEN UploadLoop(frame.total, frame.outcomes, 0, UploadStart)
                  ELSE StoreLoop(frame.total, frame.outcomes, 0, UploadStart)
       IN frame' =
            [frame EXCEPT
               !.pc = IF acc.raised THEN "raised" ELSE "done",
               !.batches = acc.batches,
               !.index_result =
                   IF acc.raised \/ frame.publisher = "vector_db" THEN @
                   ELSE [total_count |-> frame.total,
                         indexed_count |-> acc.indexed_count,
                         failed_count |-> acc.failed_count]]
    /\ UNCHANGED <<files, now, sess, runs, moved, db_failed, selection, queue>>

SpecIndex == InitIndex /\ [][IndexPublisher]_vars

---------------------------------------------------------------------------
(* services/chunking.py: ChunkingService._chunk_paragraphs *)

\* A text is kept as its length and the paragraphs it was joined from.
\* A paragraph of the normalized content: its position in the input, the
\* length of its text, whether text.strip() is empty, and its page.
Paragraph(id, len, blank, page) ==
    [id |-> id, len |-> len, blank |-> blank, page |-> page]

\* current_chunk["page"] is None
NoPage == 0

\* {"text": "", "page": page, "type": "paragraph"}
EmptyChunk(page) == [len |-> 0, parts |-> <<>>, page |-> page,
                     type |-> "paragraph"]

\* len("\n\n")
SeparatorLen == 2

\* the paragraphs left in the order of the analyze result
SortByPageUnsorted(paragraphs, page) == paragraphs

\* sorted(paragraphs, key=lambda p: p["page"]): a stable sort
RECURSIVE SortByPage(_, _)
SortByPage(paragraphs, page) ==
    IF page > MaxPage THEN <<>>
    ELSE SelectSeq(paragraphs, LAMBDA p : p.page = page)
            \o SortByPage(paragraphs, page + 1)

\* the loop with the size of the current chunk compared to max_chunk_size
\* where the code compares it to min_chunk_size
RECURSIVE ParagraphLoopMaxMin(_, _, _, _, _)
ParagraphLoopMaxMin(ps, k, max_chunk_size, min_chunk_size, st) ==
    IF k > Len(ps) THEN st
    ELSE IF ps[k].blank
    THEN ParagraphLoopMaxMin(ps, k + 1, max_chunk_size, min_chunk_size, st)
    ELSE LET cur == st.current_chunk
             full == /\ cur.len + ps[k].len > max_chunk_size
                     /\ cur.len >= max_chunk_size
             c1 == IF full THEN EmptyChunk(ps[k].page) ELSE cur
             c2 == IF c1.page = NoPage THEN [c1 EXCEPT !.page = ps[k].page] ELSE c1
             c3 == IF c2.len > 0 THEN [c2 EXCEPT !.len = @ + SeparatorLen] ELSE c2
         IN ParagraphLoopMaxMin(ps, k + 1, max_chunk_size, min_chunk_size,
               [chunks |-> IF full THEN Append(st.chunks, cur) ELSE st.chunks,
                current_chunk |-> [c3 EXCEPT !.len = @ + ps[k].len,
                                             !.parts = Append(@, ps[k].id)]])

\* `for paragraph in paragraphs`: a blank paragraph is skipped; when the
\* paragraph would make the chunk too big and the chunk has reached
\* min_chunk_size, the chunk is emitted and a new one begun; then the
\* paragraph is added, after "\n\n" when the chunk has content
RECURSIVE ParagraphLoop(_, _, _, _, _)
ParagraphLoop(ps, k, max_chunk_size, min_chunk_size, st) ==
    IF k > Len(ps) THEN st
    ELSE IF ps[k].blank
    THEN ParagraphLoop(ps, k + 1, max_chunk_size, min_chunk_size, st)
    ELSE LET cur == st.current_chunk
             full == /\ cur.len + ps[k].len > max_chunk_size
                     /\ cur.len >= min_chunk_size
             c1 == IF full THEN EmptyChunk(ps[k].page) ELSE cur
             c2 == IF c1.page = NoPage THEN [c1 EXCEPT !.page = ps[k].page] ELSE c1
             c3 == IF c2.len > 0 THEN [c2 EXCEPT !.len = @ + SeparatorLen] ELSE c2
         IN ParagraphLoop(ps, k + 1, max_chunk_size, min_chunk_size,
               [chunks |-> IF full THEN Append(st.chunks, cur) ELSE st.chunks,
                current_chunk |-> [c3 EXCEPT !.len = @ + ps[k].len,
                                             !.parts = Append(@, ps[k].id)]])

\* the end of the function with a short last chunk emitted on its own
_chunk_paragraphs_no_merge(paragraphs, max_chunk_size, min_chunk_size) ==
    LET st == ParagraphLoop(SortByPage(paragraphs, 1), 1, max_chunk_size,
                            min_chunk_size,
                            [chunks |-> <<>>, current_chunk |-> EmptyChunk(NoPage)])
    IN [chunks |-> IF st.current_chunk.len > 0
                   THEN Append(st.chunks, st.current_chunk) ELSE st.chunks,
        merged |-> FALSE]

\* ChunkingService._chunk_paragraphs: the sort, the loop, and the last chunk:
\* emitted when it has reached min_chunk_size; otherwise joined to the
\* previous chunk after "\n\n" (`merged` records that this branch was taken),
\* or emitted despite its size when there is no previous chunk
_chunk_paragraphs(paragraphs, max_chunk_size, min_chunk_size) ==
    LET st == ParagraphLoop(SortByPage(paragraphs, 1), 1, max_chunk_size,
                            min_chunk_size,
                            [chunks |-> <<>>, current_chunk |-> EmptyChunk(NoPage)])
        cur == st.current_chunk
        n == Len(st.chunks)
    IN IF cur.len > 0 /\ cur.len >= min_chunk_size
       THEN [chunks |-> Append(st.chunks, cur), merged |-> FALSE]
       ELSE IF cur.len > 0
       THEN IF n > 0
            THEN [chunks |-> [st.chunks EXCEPT ![n] =
                                [@ EXCEPT !.len = @ + SeparatorLen + cur.len,
                                          !.parts = @ \o cur.parts]],
                  merged |-> TRUE]
            ELSE [chunks |-> <<cur>>, merged |-> FALSE]
       ELSE [chunks |-> st.chunks, merged |-> FALSE]

\* size limits and the text lengths tried with them: the limits of the
\* worked example (1000 / 100 with paragraphs of 50 and 900 characters), and
\* small limits with texts below, at and above them
ChunkConfigs ==
    {[max_chunk_size |-> 1000, min_chunk_size |-> 100, lens |-> {50, 900}],
     [max_chunk_size |-> 6, min_chunk_size |-> 3, lens |-> {1, 2, 4, 7}],
     [max_chunk_size |-> 6, min_chunk_size |-> 1, lens |-> {1, 3, 6}],
     [max_chunk_size |-> 4, min_chunk_size |-> 4, lens |-> {1, 2, 4}]}

\* the texts of a configuration: non-blank ones of each length, the empty
\* string, and a single blank character
Texts(cfg) == {[len |-> l, blank |-> FALSE] : l \in cfg.lens}
                 \cup {[len |-> 0, blank |-> TRUE], [len |-> 1, blank |-> TRUE]}

\* a call of _chunk_paragraphs that has not run yet
ChunkCall(cfg, paragraphs) ==
    [fn |-> "_chunk_paragraphs", pc |-> "call",
     max_chunk_size |-> cfg.max_chunk_size,
     min_chunk_size |-> cfg.min_chunk_size,
     paragraphs |-> paragraphs, chunks |-> <<>>, merged |-> FALSE]

InitChunk ==
    /\ InitPipeline
    /\ \E cfg \in ChunkConfigs, n \in 0..MaxParagraphs :
         \E texts \in [1..n -> Texts(cfg)], pages \in [1..n -> 1..MaxPage] :
            frame = ChunkCall(cfg, [i \in 1..n |->
                        Paragraph(i, texts[i].len, texts[i].blank, pages[i])])

ChunkParagraphs ==
    /\ frame.fn = "_chunk_paragraphs" /\ frame.pc = "call"
    /\ LET r == _chunk_paragraphs(frame.paragraphs, frame.max_chunk_size,
                                 frame.min_chunk_size)
       IN frame' = [frame EXCEPT !.pc = "done", !.chunks = r.chunks,
                                 !.merged = r.merged]
    /\ UNCHANGED <<files, now, sess, runs, moved, db_failed, selection, queue>>

SpecChunk == InitChunk /\ [][ChunkParagraphs]_vars

---------------------------------------------------------------------------
(* services/chunking.py: HybridChunkingStrategy, and the chunk ids of      *)
(* ChunkingService.chunk_document                                          *)

\* raw `content` strings of the analyze result's paragraphs, and of captions
ParagraphContents == {"", "a", " a", "b"}
CaptionContents == {"", " ", "a"}

\* str.strip()
Strip(text) == CASE text = " a" -> "a"
                 [] text = " " -> ""
                 [] OTHER -> text

\* an element reference "/<kind>/<index>" of a figure or a caption
Ref(kind, index) == [kind |-> kind, index |-> index]

\* the references tried over n paragraphs: every paragraph, one index past
\* the last, and a reference to something that is not a paragraph
Refs(n) == {Ref("paragraphs", i) : i \in 0..n} \cup {Ref("tables", 0)}

\* lists of at most two references
RefLists(n) == {<<>>} \cup {<<a>> : a \in Refs(n)}
                  \cup {<<a, b>> : a \in Refs(n), b \in Refs(n)}

\* figures of the analyze result: with or without "id", "elements",
\* "caption", and caption "elements"
Figures(n) ==
    {[has_id |-> i, has_elements |-> e, elements |-> els, has_caption |-> c,
      caption_content |-> cc, caption_has_elements |-> ce,
      caption_elements |-> cels] :
        i \in BOOLEAN, e \in BOOLEAN, els \in RefLists(n), c \in BOOLEAN,
        cc \in CaptionContents, ce \in BOOLEAN,
        cels \in {<<>>} \cup {<<a>> : a \in Refs(n)}}

\* one shape per figure: an absent key carries no value
WellFormed(figure) ==
    /\ ~figure.has_elements => figure.elements = <<>>
    /\ ~figure.has_caption => /\ figure.caption_content = ""
                              /\ ~figure.caption_has_elements
    /\ ~figure.caption_has_elements => figure.caption_elements = <<>>

\* the id of the figure's "id" key, and str(uuid.uuid4()) of the n-th call
FigureId == "1.1"
uuid4(n) == <<"uuid4", n>>

\* figure.get("id", str(uuid.uuid4())): the figure's id, or a fresh uuid
\* (`calls` uuids were drawn before)
figure_id(figure, calls) ==
    IF figure.has_id THEN FigureId ELSE uuid4(calls + 1)

\* elements_included: figure.get("elements", []) extended by the caption's
\* elements
ElementsIncluded(figure) ==
    (IF figure.has_elements THEN figure.elements ELSE <<>>)
       \o (IF figure.has_caption /\ figure.caption_has_elements
           THEN figure.caption_elements ELSE <<>>)

\* the figure after the call: .extend() has changed its "elements" list in
\* place when the key exists
FigureAfter(figure) ==
    IF figure.has_elements
    THEN [figure EXCEPT !.elements = ElementsIncluded(figure)]
    ELSE figure

\* `for element in elements_included`: a "/paragraphs/<i>" reference inside
\* the paragraph list adds the paragraph's stripped content and its index,
\* unless the content is empty or already among the contents collected
RECURSIVE Collect(_, _, _, _)
Collect(elements, k, paragraphs, acc) ==
    IF k > Len(elements) THEN acc
    ELSE LET e == elements[k]
             content == IF e.index < Len(paragraphs)
                        THEN Strip(paragraphs[e.index + 1]) ELSE ""
             seen == \E j \in 1..Len(acc.contents) : acc.contents[j] = content
         IN IF /\ e.kind = "paragraphs" /\ e.index < Len(paragraphs)
               /\ content # "" /\ ~seen
            THEN Collect(elements, k + 1, paragraphs,
                    [contents |-> Append(acc.contents, content),
                     indices |-> Append(acc.indices, e.index)])
            ELSE Collect(elements, k + 1, paragraphs, acc)

\* HybridChunkingStrategy._chunk_figures: one chunk per figure with text
RECURSIVE hybrid_chunk_figures(_, _, _, _)
hybrid_chunk_figures(figures, k, paragraphs, calls) ==
    IF k > Len(figures) THEN <<>>
    ELSE LET figure == figures[k]
             caption_text == IF figure.has_caption THEN figure.caption_content
                             ELSE ""
             got == Collect(ElementsIncluded(figure), 1, paragraphs,
                            [contents |-> IF caption_text # ""
                                          THEN <<caption_text>> ELSE <<>>,
                             indices |-> <<>>])
             has_text == \E j \in 1..Len(got.contents) :
                             Strip(got.contents[j]) # ""
             rest == hybrid_chunk_figures(figures, k + 1, paragraphs, calls + 1)
         IN IF has_text
            THEN <<[chunk_id |-> <<"figure", figure_id(figure, calls)>>,
                    chunk_type |-> "figure", source |-> k,
                    included_paragraph_indices |-> got.indices]>> \o rest
            ELSE rest

\* HybridChunkingStrategy._chunk_standalone_paragraphs: paragraphs i, i+1, ...
\* (0-based) that are not included and not blank, numbered as they are
\* emitted; `source` is the paragraph's index
RECURSIVE chunk_standalone_paragraphs(_, _, _, _)
chunk_standalone_paragraphs(paragraphs, included_paragraphs, i, paragraph_index) ==
    IF i >= Len(paragraphs) THEN <<>>
    ELSE IF i \in included_paragraphs \/ Strip(paragraphs[i + 1]) = ""
    THEN chunk_standalone_paragraphs(paragraphs, included_paragraphs, i + 1,
                                     paragraph_index)
    ELSE <<[chunk_id |-> <<"paragraph", paragraph_index>>,
            chunk_type |-> "paragraph", source |-> i,
            included_paragraph_indices |-> <<>>]>>
         \o chunk_standalone_paragraphs(paragraphs, included_paragraphs, i + 1,
                                        paragraph_index + 1)

\* HybridChunkingStrategy.chunk_document: the figure chunks, then the
\* paragraphs no figure chunk includes; every chunk has its chunk_id already
hybrid_chunk_document(analyze_result, calls) ==
    LET figure_chunks == hybrid_chunk_figures(analyze_result.figures, 1,
                                              analyze_result.paragraphs, calls)
        included_paragraphs ==
            UNION {{figure_chunks[k].included_paragraph_indices[j] :
                      j \in 1..Len(figure_chunks[k].included_paragraph_indices)} :
                   k \in 1..Len(figure_chunks)}
    IN figure_chunks
         \o chunk_standalone_paragraphs(analyze_result.paragraphs,
                                        included_paragraphs, 0, 0)

\* the limits of ChunkingService()
DefaultChunkSizes == [max_chunk_size |-> 1500, min_chunk_size |-> 100]

\* ChunkingService.chunk_document on a document of paragraphs only (no
\* tables, figures or handwriting), all on page 1: chunk i gets the id
\* f"{document_id}_chunk_{i}"
chunk_document(paragraphs, document_id) ==
    LET ps == [i \in 1..Len(paragraphs) |->
                 Paragraph(i, IF paragraphs[i] = "" THEN 0 ELSE 900,
                           Strip(paragraphs[i]) = "", 1)]
        chunks == _chunk_paragraphs(ps, DefaultChunkSizes.max_chunk_size,
                                    DefaultChunkSizes.min_chunk_size).chunks
    IN [i \in 1..Len(chunks) |->
          [chunk_id |-> <<document_id, "chunk", i - 1>>,
           chunk_type |-> "paragraph", source |-> chunks[i].parts[1] - 1,
           included_paragraph_indices |-> <<>>]]

\* a strategy object and a document it has not chunked yet
DocumentCall(strategy, analyze_result) ==
    [fn |-> "chunk_document", pc |-> "call", strategy |-> strategy,
     analyze_result |-> analyze_result, referenced |-> {},
     uuid_calls |-> 0, chunks |-> <<>>, ids |-> <<>>]

\* every 0-based paragraph index a figure of the document refers to
Referenced(analyze_result) ==
    {e.index : e \in
        UNION {{ElementsIncluded(analyze_result.figures[k])[j] :
                   j \in 1..Len(ElementsIncluded(analyze_result.figures[k]))} :
               k \in 1..Len(analyze_result.figures)}
        \cap {Ref("paragraphs", i) : i \in 0..(Len(analyze_result.paragraphs) - 1)}}

InitHybrid ==
    /\ InitPipeline
    /\ \E strategy \in {"ChunkingService", "HybridChunkingStrategy"},
          n \in 0..MaxHybridParagraphs :
         \E paragraphs \in [1..n -> ParagraphContents],
            figures \in {<<>>} \cup {<<f>> : f \in {g \in Figures(n) : WellFormed(g)}} :
            /\ strategy = "ChunkingService" => figures = <<>>
            /\ frame = [DocumentCall(strategy,
                           [paragraphs |-> paragraphs, figures |-> figures])
                        EXCEPT !.referenced =
                           Referenced([paragraphs |-> paragraphs,
                                       figures |-> figures])]

\* chunk_document(analyze_result, document_id, document_title) on the same
\* document object, a first and a second time; the ids of each run are kept
\* (`referenced` is the set of paragraphs the figures referred to at first)
ChunkDocument ==
    /\ frame.fn = "chunk_document" /\ frame.pc \in {"call", "once"}
    /\ LET doc == frame.analyze_result
           chunks == IF frame.strategy = "HybridChunkingStrategy"
                     THEN hybrid_chunk_document(doc, frame.uuid_calls)
                     ELSE chunk_document(doc.paragraphs, "file_1")
       IN frame' =
            [frame EXCEPT
               !.pc = IF frame.pc = "call" THEN "once" ELSE "twice",
               !.analyze_result.figures =
                   IF frame.strategy = "HybridChunkingStrategy"
                   THEN [k \in 1..Len(doc.figures) |-> FigureAfter(doc.figures[k])]
                   ELSE @,
               !.uuid_calls =
                   IF frame.strategy = "HybridChunkingStrategy"
                   THEN @ + Len(doc.figures) ELSE @,
               !.chunks = chunks,
               !.ids = Append(@, [k \in 1..Len(chunks) |-> chunks[k].chunk_id])]
    /\ UNCHANGED <<files, now, sess, runs, moved, db_failed, selection, queue>>

SpecHybrid == InitHybrid /\ [][ChunkDocument]_vars

---------------------------------------------------------------------------
(* Re-processing: chunk, embed and upload the same OCR output twice *)

\* document_id = f"file_{file_id}"
DocumentId(file_id) == <<"file", file_id>>

\* the search document keyed by its position among the documents uploaded
SearchDocumentByPosition(chunk, position, run) ==
    [chunk_id |-> <<chunk.chunk_id[1], "chunk", position - 1>>,
     chunk |-> chunk.source, uploaded_in |-> run]

\* the search document of a chunk: the key field chunk_id is the chunk's id;
\* `chunk` stands for its text (the paragraph the chunk begins with) and
\* `uploaded_in` for the run that made the vector
SearchDocument(chunk, position, run) ==
    [chunk_id |-> chunk.chunk_id, chunk |-> chunk.source, uploaded_in |-> run]

\* search_client.upload_documents: a document whose key the index holds
\* replaces the one held, any other is added
Upsert(index, documents) ==
    {d \in index : \A e \in documents : e.chunk_id # d.chunk_id} \cup documents

\* the pipeline of one file that has not run yet; the index is empty
ReprocessCall(paragraphs) ==
    [fn |-> "reprocess", pc |-> "call", paragraphs |-> paragraphs,
     index |-> {}, before |-> {}, uploaded |-> <<>>, calls |-> <<>>]

InitReindex ==
    /\ InitPipeline
    /\ \E n \in 0..MaxHybridParagraphs :
         \E paragraphs \in [1..n -> ParagraphContents] :
            frame = ReprocessCall(paragraphs)

\* One run of the stages on file 1 with the same OCR output: chunk_document,
\* the embedding loop (the calls in `fails` raise), one search document per
\* chunk with a vector, and the upload (the documents at the positions in
\* `rejected` are not accepted by the index).  `before` is the index as the
\* run found it, `uploaded` the keys each run got accepted.
Reprocess ==
    /\ frame.fn = "reprocess" /\ frame.pc \in {"call", "once"}
    /\ LET run == IF frame.pc = "call" THEN 1 ELSE 2
           chunks == chunk_document(frame.paragraphs, DocumentId(1))
       IN \E fails \in SUBSET (1..Len(chunks)) :
            LET chunks_with_vectors ==
                    EmbedLoop([i \in 1..Len(chunks) |-> Chunk(i, max_text_length)],
                              fails, 1, EmbedStart).chunks_with_vectors
                search_documents ==
                    [k \in 1..Len(chunks_with_vectors) |->
                        SearchDocument(chunks[chunks_with_vectors[k].id], k, run)]
            IN \E rejected \in SUBSET (1..Len(search_documents)) :
                 LET accepted == {search_documents[k] :
                                    k \in (1..Len(search_documents)) \ rejected}
                 IN frame' =
                      [frame EXCEPT
                         !.pc = IF run = 1 THEN "once" ELSE "twice",
                         !.before = frame.index,
                         !.index = Upsert(frame.index, accepted),
                         !.uploaded = Append(@, {d.chunk_id : d \in accepted}),
                         !.calls = Append(@, [fails |-> fails,
                                              rejected |-> rejected])]
    /\ UNCHANGED <<files, now, sess, runs, moved, db_failed, selection, queue>>

SpecReindex == InitReindex /\ [][Reprocess]_vars

---------------------------------------------------------------------------
(* services/chunking.py: ChunkingService._chunk_tables and _table_to_text  *)

\* A cell text and a serialized table are sequences of characters.
NL == "\n"

\* ch * n
Repeat(ch, n) == [i \in 1..n |-> ch]

\* sep.join(parts)
RECURSIVE Join(_, _)
Join(sep, parts) ==
    IF parts = <<>> THEN <<>>
    ELSE IF Len(parts) = 1 THEN parts[1]
    ELSE parts[1] \o sep \o Join(sep, Tail(parts))

\* max() of a non-empty set of numbers
Maximum(S) == CHOOSE x \in S : \A y \in S : y <= x

\* col_widths after the first loop: one entry per cell of the first row, the
\* longest cell of the column over the rows that reach it
col_widths(table_content) ==
    [i \in 1..Len(table_content[1]) |->
        Maximum({0} \cup {Len(table_content[r][i]) :
                     r \in {q \in 1..Len(table_content) :
                               i <= Len(table_content[q])}})]

\* f"{str(cell):{width}}": left-aligned, padded with spaces to the width
Format(cell, width) ==
    IF Len(cell) >= width THEN cell
    ELSE cell \o Repeat(" ", width - Len(cell))

\* "+" + "+".join("-" * (width + 2) for width in col_widths) + "+"
separator(widths) ==
    <<"+">> \o Join(<<"+">>, [i \in 1..Len(widths) |->
                                 Repeat("-", widths[i] + 2)]) \o <<"+">>

\* "|" followed by f" {cell} |" for the cells that have a column width
text_row(row, widths) ==
    LET n == IF Len(row) < Len(widths) THEN Len(row) ELSE Len(widths)
    IN <<"|">> \o Join(<<>>, [i \in 1..n |->
                   <<" ">> \o Format(row[i], widths[i]) \o <<" ", "|">>])

\* the boxed text: separator, then each row followed by a separator
_table_to_text(table_content) ==
    IF table_content = <<>> THEN <<>>
    ELSE LET widths == col_widths(table_content)
             text_rows == [k \in 1..(2 * Len(table_content) + 1) |->
                             IF k % 2 = 1 THEN separator(widths)
                             ELSE text_row(table_content[k \div 2], widths)]
         IN Join(<<NL>>, text_rows)

\* max(1, row_count // ((len(table_text) // max_chunk_size) + 1))
rows_per_chunk(row_count, table_text, max_chunk_size) ==
    LET q == row_count \div ((Len(table_text) \div max_chunk_size) + 1)
    IN IF q > 1 THEN q ELSE 1

\* f"Table (rows {first}-{last} of {row_count}):\n{chunk_text}"
RowsText(first, last, row_count, chunk_text) ==
    [label |-> "rows", first |-> first, last |-> last,
     row_count |-> row_count, body |-> chunk_text]

\* f"Table ({row_count}x{column_count}):\n{table_text}"
TableText(row_count, column_count, table_text) ==
    [label |-> "table", row_count |-> row_count,
     column_count |-> column_count, body |-> table_text]

\* table["content"][i:i + rows_per_chunk - 1]
RowSliceShort(content, i, n) ==
    SubSeq(content, i + 1,
           (IF i + n < Len(content) THEN i + n ELSE Len(content)) - 1)

\* table["content"][i:i + rows_per_chunk], i counted from 0
RowSlice(content, i, n) ==
    SubSeq(content, i + 1, IF i + n < Len(content) THEN i + n ELSE Len(content))

\* the chunks of one table
TableChunks(table, max_chunk_size) ==
    LET table_text == _table_to_text(table.content)
        row_count == table.row_count
        n == rows_per_chunk(row_count, table_text, max_chunk_size)
        \* range(0, row_count, rows_per_chunk)
        starts == [k \in 1..((row_count + n - 1) \div n) |-> (k - 1) * n]
    IN IF Len(table_text) > max_chunk_size
       THEN [k \in 1..Len(starts) |->
               [text |-> RowsText(starts[k] + 1,
                                  IF starts[k] + n < row_count
                                  THEN starts[k] + n ELSE row_count,
                                  row_count,
                                  _table_to_text(RowSlice(table.content,
                                                          starts[k], n))),
                page |-> table.page, type |-> "table"]]
       ELSE <<[text |-> TableText(row_count, table.column_count, table_text),
               page |-> table.page, type |-> "table"]>>

RECURSIVE _chunk_tables(_, _)
_chunk_tables(tables, max_chunk_size) ==
    IF tables = <<>> THEN <<>>
    ELSE TableChunks(tables[1], max_chunk_size)
            \o _chunk_tables(Tail(tables), max_chunk_size)

\* the texts of a cell: empty, a letter, a blank, and the two characters the
\* boxed text is drawn with
CellContents == {<<>>, <<"a">>, <<" ">>, <<"|">>, <<NL>>}

\* the values of max_chunk_size: the default, a value that splits a 4x1
\* table in two, half the length of a 4x1 table of empty cells (44), the
\* length of a 1x1 table with a one-letter cell (17), and a value below the
\* shortest table
TableMaxSizes == {1500, 30, 22, 17, 8}

\* the cell grids of row_count x column_count cells, at most MaxCells cells
Grids ==
    UNION {UNION {[1..r -> [1..c -> CellContents]] :
                    c \in {d \in 1..MaxCells : r * d <= MaxCells}} :
             r \in 0..MaxCells}

\* the table entry extract_document_content builds: content has row_count
\* rows of column_count cells
Table(content, column_count, page) ==
    [content |-> content, page |-> page, row_count |-> Len(content),
     column_count |-> column_count]

\* a call of _chunk_tables that has not run yet
TablesCall(max_chunk_size, tables) ==
    [fn |-> "_chunk_tables", pc |-> "call", max_chunk_size |-> max_chunk_size,
     tables |-> tables, chunks |-> <<>>]

InitTable ==
    /\ InitPipeline
    /\ \E max_chunk_size \in TableMaxSizes, content \in Grids :
         \E column_count \in {c \in 1..MaxCells :
                                 \/ content = <<>>
                                 \/ c = Len(content[1])} :
            frame = TablesCall(max_chunk_size,
                               <<Table(content, column_count, 1)>>)

ChunkTables ==
    /\ frame.fn = "_chunk_tables" /\ frame.pc = "call"
    /\ frame' = [frame EXCEPT !.pc = "done",
                   !.chunks = _chunk_tables(frame.tables, frame.max_chunk_size)]
    /\ UNCHANGED <<files, now, sess, runs, moved, db_failed, selection, queue>>

SpecTable == InitTable /\ [][ChunkTables]_vars

---------------------------------------------------------------------------
(* services/chunking.py: ChunkingService.chunk_document over the four      *)
(* kinds of content                                                        *)

\* not text.strip(): the text is empty or holds white space only
IsBlank(text) == \A i \in 1..Len(text) : text[i] \in {" ", NL}

\* ChunkingService._chunk_figures: a figure whose text is blank is skipped,
\* any other gives f"{figure['caption']}: {figure['text']}"
RECURSIVE _chunk_figures(_)
_chunk_figures(figures) ==
    IF figures = <<>> THEN <<>>
    ELSE LET figure == figures[1]
         IN (IF IsBlank(figure.text) THEN <<>>
             ELSE <<[text |-> figure.caption \o <<":", " ">> \o figure.text,
                     page |-> figure.page, type |-> "figure"]>>)
               \o _chunk_figures(Tail(figures))

\* "Handwritten text: "
HandwritingPrefix ==
    <<"H", "a", "n", "d", "w", "r", "i", "t", "t", "e", "n", " ",
      "t", "e", "x", "t", ":", " ">>

\* ChunkingService._chunk_handwriting: an item whose text is blank is
\* skipped, any other gives f"Handwritten text: {item['text']}"
RECURSIVE _chunk_handwriting(_)
_chunk_handwriting(handwriting) ==
    IF handwriting = <<>> THEN <<>>
    ELSE LET item == handwriting[1]
         IN (IF IsBlank(item.text) THEN <<>>
             ELSE <<[text |-> HandwritingPrefix \o item.text,
                     page |-> item.page, type |-> "handwriting"]>>)
               \o _chunk_handwriting(Tail(handwriting))

\* the chunks list of chunk_document before the ids are set: the chunks of
\* the paragraphs, then of the tables, the figures and the handwriting
structured_chunks(structured_content, max_chunk_size, min_chunk_size) ==
    _chunk_paragraphs(structured_content.paragraphs, max_chunk_size,
                      min_chunk_size).chunks
      \o _chunk_tables(structured_content.tables, max_chunk_size)
      \o _chunk_figures(structured_content.figures)
      \o _chunk_handwriting(structured_content.handwriting)

\* f"Figure {figure_idx+1}" of the first figure of a page
FigureCaption == <<"F", "i", "g", "u", "r", "e", " ", "1">>

\* the texts of a figure, a handwriting item or a cell: empty, a blank, a
\* letter
ItemTexts == {<<>>, <<" ">>, <<"a">>}

\* the tables of at most MaxItems cells
ItemTables ==
    {Table(g, IF g = <<>> THEN 1 ELSE Len(g[1]), 1) :
       g \in {h \in Grids :
                /\ h = <<>> \/ Len(h) * Len(h[1]) <= MaxItems
                /\ \A r \in 1..Len(h) : \A c \in 1..Len(h[r]) :
                      h[r][c] \in ItemTexts}}

\* what a document holds beside its paragraphs: nothing, one table, one
\* figure or one handwriting item
OtherItems ==
    {[tables |-> <<>>, figures |-> <<>>, handwriting |-> <<>>]}
      \cup {[tables |-> <<t>>, figures |-> <<>>, handwriting |-> <<>>] :
               t \in ItemTables}
      \cup {[tables |-> <<>>, handwriting |-> <<>>,
             figures |-> <<[text |-> x, caption |-> FigureCaption,
                            page |-> 1]>>] : x \in ItemTexts}
      \cup {[tables |-> <<>>, figures |-> <<>>,
             handwriting |-> <<[text |-> x, page |-> 1]>>] : x \in ItemTexts}

\* a call of chunk_document that has not run yet
ItemsCall(cfg, structured_content) ==
    [fn |-> "chunk_document", pc |-> "items",
     max_chunk_size |-> cfg.max_chunk_size,
     min_chunk_size |-> cfg.min_chunk_size,
     structured_content |-> structured_content, chunks |-> <<>>]

InitItems ==
    /\ InitPipeline
    /\ \E cfg \in ChunkConfigs, n \in 0..MaxItems, other \in OtherItems :
         \E texts \in [1..n -> Texts(cfg)] :
            frame = ItemsCall(cfg,
                      [paragraphs |-> [i \in 1..n |->
                           Paragraph(i, texts[i].len, texts[i].blank, 1)],
                       tables |-> other.tables, figures |-> other.figures,
                       handwriting |-> other.handwriting])

ChunkItems ==
    /\ frame.fn = "chunk_document" /\ frame.pc = "items"
    /\ frame' = [frame EXCEPT !.pc = "chunked",
                   !.chunks = structured_chunks(frame.structured_content,
                                                frame.max_chunk_size,
                                                frame.min_chunk_size)]
    /\ UNCHANGED <<files, now, sess, runs, moved, db_failed, selection, queue>>

SpecItems == InitItems /\ [][ChunkItems]_vars

---------------------------------------------------------------------------
(* Table normalization: TableExtractor._organize_table_cells and the table *)
(* loop of extract_document_content                                         *)

\* the texts of the cells of a table
CellTexts == {<<"a">>, <<"b">>}

\* the grid positions the rectangle of a cell covers
Covered(cell) ==
    (cell.row_index..(cell.row_index + cell.row_span - 1))
        \X (cell.column_index..(cell.column_index + cell.column_span - 1))

\* A table of the analysis result with row_count x column_count positions:
\* `spans` gives each position the <<row_span, column_span>> of the cell
\* that starts there, <<0, 0>> where none starts.  The cells are listed row
\* by row; their content is set by WithContents.
LayoutTable(row_count, column_count, spans) ==
    LET position(k) == <<(k - 1) \div column_count, (k - 1) % column_count>>
        anchors == SelectSeq([k \in 1..(row_count * column_count) |-> k],
                             LAMBDA k : spans[position(k)] # <<0, 0>>)
    IN [row_count |-> row_count, column_count |-> column_count,
        cells |-> [j \in 1..Len(anchors) |->
                     [row_index |-> position(anchors[j])[1],
                      column_index |-> position(anchors[j])[2],
                      row_span |-> spans[position(anchors[j])][1],
                      column_span |-> spans[position(anchors[j])][2],
                      content |-> <<>>]]]

\* the table with contents[k] as the text of its k-th cell
WithContents(table, contents) ==
    [table EXCEPT !.cells = [k \in 1..Len(table.cells) |->
                               [table.cells[k] EXCEPT !.content = contents[k]]]]

\* the cells of a table of the layout model lie inside the table, do not
\* overlap, and leave no position uncovered
Tiling(table) ==
    \A p \in (0..(table.row_count - 1)) \X (0..(table.column_count - 1)) :
       /\ Cardinality({k \in 1..Len(table.cells) :
                          p \in Covered(table.cells[k])}) = 1
       /\ \A k \in 1..Len(table.cells) :
             Covered(table.cells[k]) \subseteq
                (0..(table.row_count - 1)) \X (0..(table.column_count - 1))

\* the tables of at most MaxCells positions
LayoutTables ==
    UNION {UNION {{t \in {LayoutTable(r, c, spans) :
                            spans \in [(0..(r - 1)) \X (0..(c - 1)) ->
                                         {<<0, 0>>} \cup
                                           ((1..MaxSpan) \X (1..MaxSpan))]} :
                      Tiling(t)} :
                    c \in {d \in 1..MaxCells : r * d <= MaxCells}} :
             r \in 1..MaxCells}

\* TableExtractor._organize_table_cells: the dimensions are the largest
\* indices plus one; each cell in turn writes its content to the positions
\* of its span that lie inside, so a position ends with the content of the
\* last cell that covers it, and "" where none does
_organize_table_cells(table) ==
    LET cells == table.cells
        row_count == Maximum({cells[k].row_index : k \in 1..Len(cells)}) + 1
        column_count ==
            Maximum({cells[k].column_index : k \in 1..Len(cells)}) + 1
        writers(r, c) == {k \in 1..Len(cells) : <<r, c>> \in Covered(cells[k])}
    IN [r \in 1..row_count |-> [c \in 1..column_count |->
          IF writers(r - 1, c - 1) = {} THEN <<>>
          ELSE cells[Maximum(writers(r - 1, c - 1))].content]]

\* the table loop of extract_document_content: table.row_count rows of
\* table.column_count cells, each the content of the first cell whose
\* row_index and column_index are the position, and "" where none is
table_content(table) ==
    LET cells == table.cells
        at(r, c) == {k \in 1..Len(cells) : /\ cells[k].row_index = r
                                            /\ cells[k].column_index = c}
    IN [r \in 1..table.row_count |-> [c \in 1..table.column_count |->
          IF at(r - 1, c - 1) = {} THEN <<>>
          ELSE cells[CHOOSE k \in at(r - 1, c - 1) :
                        \A j \in at(r - 1, c - 1) : k <= j].content]]

\* the function that builds the grid: extract_document_content for the
\* chunker (process_document, process_document_from_queue), and
\* _organize_table_cells for TableExtractor.extract_tables
Normalizers == {"extract_document_content", "_organize_table_cells"}

\* a normalization that has not run yet
NormalizeCall(normalizer, table) ==
    [fn |-> normalizer, pc |-> "call", table |-> table, rows |-> <<>>]

InitNormalize ==
    /\ InitPipeline
    /\ \E normalizer \in Normalizers, table \in LayoutTables :
         \E contents \in [1..Len(table.cells) -> CellTexts] :
            frame = NormalizeCall(normalizer, WithContents(table, contents))

NormalizeTable ==
    /\ frame.fn \in Normalizers /\ frame.pc = "call"
    /\ frame' = [frame EXCEPT !.pc = "done",
                   !.rows = IF frame.fn = "extract_document_content"
                            THEN Table(table_content(frame.table),
                                       frame.table.column_count, 1).content
                            ELSE _organize_table_cells(frame.table)]
    /\ UNCHANGED <<files, now, sess, runs, moved, db_failed, selection, queue>>

SpecNormalize == InitNormalize /\ [][NormalizeTable]_vars

---------------------------------------------------------------------------
(* Tenant isolation: the indexing and search operations of function_app.py *)
(* on the search index, and MockVectorDatabase                             *)

Users == {"A", "B"}

\* result.get("user_id", "") of a document that has no user_id field
NoUserId == ""

\* The search document of a pipeline chunk (process_document and
\* process_document_from_queue): the field user_id is the caller's.
\* `indexed_by` records the user whose call put the document in the index.
PipelineDocument(key, user_id) ==
    [chunk_id |-> <<"chunk", key>>, user_id |-> user_id,
     metadata_user_id |-> NoUserId, indexed_by |-> user_id]

\* The search document of index_document: id, content and metadata; the
\* caller's user id is written into the metadata JSON string, and the
\* document has no field user_id.
IndexedDocument(key, user_id) ==
    [chunk_id |-> <<"id", key>>, user_id |-> NoUserId,
     metadata_user_id |-> user_id, indexed_by |-> user_id]

\* The document MockVectorDatabase.store_document_chunks appends.
MockDocument(key, user_id) ==
    [id |-> <<"file", key>>, user_id |-> user_id, indexed_by |-> user_id]

\* no search has returned yet
NoSearch == [fn |-> "none", user_id |-> NoUserId, returned |-> {}]

\* the index and the mock database are empty
InitTenant ==
    /\ InitPipeline
    /\ frame = [fn |-> "search", pc |-> "ready", index |-> {},
                documents |-> <<>>, search |-> NoSearch]

\* the upload of the pipeline: search_client.upload_documents, accepted
pipeline_upload(user_id, key) ==
    /\ frame.fn = "search"
    /\ frame' = [frame EXCEPT
                   !.index = Upsert(@, {PipelineDocument(key, user_id)})]

\* index_document: admin_client.upload_documents, accepted
index_document(user_id, key) ==
    /\ frame.fn = "search"
    /\ frame' = [frame EXCEPT
                   !.index = Upsert(@, {IndexedDocument(key, user_id)})]

\* MockVectorDatabase.store_document_chunks with one chunk
store_document_chunks(user_id, key) ==
    /\ frame.fn = "search"
    /\ Len(frame.documents) < MaxMockDocs
    /\ frame' = [frame EXCEPT
                   !.documents = Append(@, MockDocument(key, user_id))]

\* search_query: the service returns matching documents of the index (any
\* of them, by the text and `top`); the handler leaves out a result whose
\* user_id is set and is not the caller's
search_query(user_id) ==
    /\ frame.fn = "search"
    /\ \E results \in SUBSET frame.index :
          frame' = [frame EXCEPT !.search =
                      [fn |-> "search_query", user_id |-> user_id,
                       returned |->
                          {result \in results :
                              ~(result.user_id # NoUserId
                                  /\ result.user_id # user_id)}]]

\* vector_search: the service applies the filter user_id eq '<caller>' and
\* returns matching documents among those the filter keeps
vector_search(user_id) ==
    /\ frame.fn = "search"
    /\ \E results \in SUBSET {d \in frame.index : d.user_id = user_id} :
          frame' = [frame EXCEPT !.search =
                      [fn |-> "vector_search", user_id |-> user_id,
                       returned |-> results]]

\* MockVectorDatabase.search_documents: the documents whose user_id is the
\* caller's, then those the filters and the query terms keep
search_documents(user_id) ==
    /\ frame.fn = "search"
    /\ LET results == {frame.documents[i] :
                          i \in {j \in 1..Len(frame.documents) :
                                    frame.documents[j].user_id = user_id}}
       IN \E kept \in SUBSET results :
             frame' = [frame EXCEPT !.search =
                          [fn |-> "search_documents", user_id |-> user_id,
                           returned |-> kept]]

NextTenant ==
    /\ \E user_id \in Users, key \in 1..MaxKeys :
          \/ pipeline_upload(user_id, key)
          \/ index_document(user_id, key)
          \/ store_document_chunks(user_id, key)
          \/ search_query(user_id)
          \/ vector_search(user_id)
          \/ search_documents(user_id)
    /\ UNCHANGED <<files, now, sess, runs, moved, db_failed, selection, queue>>

SpecTenant == InitTenant /\ [][NextTenant]_vars

---------------------------------------------------------------------------
(* services/document_intelligence/client.py:                               *)
(* DocumentIntelligenceClient.analyze_document                             *)

MAX_RETRIES == 3

\* what one pass of the try block meets: no exception, or an exception
\* raised by begin_analyze_document or by poller.result()
CallSites == {"begin_analyze_document", "poller.result"}
CallErrors == {"ServiceRequestError", "ClientAuthenticationError",
               "ResourceNotFoundError", "Exception"}
CallOutcomes == {[site |-> "none", exc |-> None]}
                  \cup [site : CallSites, exc : CallErrors]

ModelIds == {"prebuilt-layout", "prebuilt-read"}

\* `attempt < MAX_RETRIES` in the place of `attempt < MAX_RETRIES - 1`
MayRetryAlways(attempt) == attempt < MAX_RETRIES

\* if attempt < MAX_RETRIES - 1
MayRetry(attempt) == attempt < MAX_RETRIES - 1

\* analyze_document entered: the loop is at attempt 0 and nothing was
\* called; `outcomes` records what each service call met, `waits` the calls
\* of time.sleep(RETRY_DELAY)
AnalyzeCall(model_id) ==
    [fn |-> "analyze_document", pc |-> "attempt", model_id |-> model_id,
     attempt |-> 0, outcomes |-> <<>>, waits |-> 0, result |-> "none",
     raised |-> None]

InitAnalyze ==
    /\ InitPipeline
    /\ \E model_id \in ModelIds : frame = AnalyzeCall(model_id)

\* One pass of the try block: client.begin_analyze_document and
\* poller.result().  Without an exception the result is returned.
\* ResourceNotFoundError raises "Model ... not found" at once.  Any other
\* exception: before the last attempt the function goes to sleep, at the
\* last attempt it raises "Document analysis failed".
AnalyzeAttempt ==
    /\ frame.fn = "analyze_document" /\ frame.pc = "attempt"
    /\ \E outcome \in CallOutcomes :
         LET called == [frame EXCEPT !.outcomes = Append(@, outcome)]
         IN frame' =
              IF outcome.exc = None
              THEN [called EXCEPT !.pc = "returned", !.result = "to_dict"]
              ELSE IF outcome.exc = "ResourceNotFoundError"
              THEN [called EXCEPT !.pc = "raised",
                                  !.raised = "Model not found"]
              ELSE IF MayRetry(frame.attempt)
              THEN [called EXCEPT !.pc = "sleep"]
              ELSE [called EXCEPT !.pc = "raised",
                                  !.raised = "Document analysis failed"]
    /\ UNCHANGED <<files, now, sess, runs, moved, db_failed, selection, queue>>

\* time.sleep(RETRY_DELAY), then the next value of `attempt`; when range()
\* is used up the function ends without a return value
AnalyzeSleep ==
    /\ frame.fn = "analyze_document" /\ frame.pc = "sleep"
    /\ frame' = [frame EXCEPT
                   !.waits = @ + 1,
                   !.attempt = @ + 1,
                   !.pc = IF frame.attempt + 1 < MAX_RETRIES
                          THEN "attempt" ELSE "returned",
                   !.result = IF frame.attempt + 1 < MAX_RETRIES
                              THEN @ ELSE "None"]
    /\ UNCHANGED <<files, now, sess, runs, moved, db_failed, selection, queue>>

NextAnalyze == AnalyzeAttempt \/ AnalyzeSleep

SpecAnalyze == InitAnalyze /\ [][NextAnalyze]_vars

---------------------------------------------------------------------------
(* function_app.py: chunk_text                                             *)

\* the sentence delimiters in the order the loop tries them
SentenceDelimiters == <<<<".", " ">>, <<"!", " ">>, <<"?", " ">>>>

\* text.rfind(delimiter, start, end): the highest 0-based index at which
\* the delimiter lies wholly inside text[start:end], -1 when there is none
rfind(text, delimiter, start, end) ==
    LET found == {i \in start..(end - Len(delimiter)) :
                    \A j \in 1..Len(delimiter) : text[i + j] = delimiter[j]}
    IN IF found = {} THEN -1 ELSE Maximum(found)

\* `for delimiter in [". ", "! ", "? "]`: the end after the last occurrence
\* of the first delimiter that occurs in the window, else the end unchanged
RECURSIVE SentenceEnd(_, _, _, _)
SentenceEnd(text, start, end, d) ==
    IF d > Len(SentenceDelimiters) THEN end
    ELSE LET last_delimiter == rfind(text, SentenceDelimiters[d], start, end)
         IN IF last_delimiter # -1 THEN last_delimiter + 2
            ELSE SentenceEnd(text, start, end, d + 1)

\* the while loop of chunk_text; a chunk is kept with the positions
\* text[start:end] it was cut at
RECURSIVE ChunkTextLoop(_, _, _, _, _)
ChunkTextLoop(text, start, max_chunk_size, overlap, chunks) ==
    IF ~(start < Len(text)) THEN chunks
    ELSE LET window == IF start + max_chunk_size < Len(text)
                       THEN start + max_chunk_size ELSE Len(text)
             end == IF window < Len(text)
                    THEN SentenceEnd(text, start, window, 1) ELSE window
         IN ChunkTextLoop(text,
                          IF end - overlap > start THEN end - overlap ELSE end,
                          max_chunk_size, overlap,
                          Append(chunks, [text |-> SubSeq(text, start + 1, end),
                                          start |-> start, end |-> end]))

chunk_text(text, max_chunk_size, overlap) ==
    IF text = <<>> THEN <<>>
    ELSE ChunkTextLoop(text, 0, max_chunk_size, overlap, <<>>)

\* the characters of a text: a letter, the three sentence marks, a space
TextChars == {"a", ".", "!", "?", " "}

\* the values of max_chunk_size and overlap tried
TextConfigs == {[max_chunk_size |-> 4, overlap |-> 0],
                [max_chunk_size |-> 4, overlap |-> 1],
                [max_chunk_size |-> 5, overlap |-> 2]}

\* a call of chunk_text that has not run yet
TextCall(cfg, text) ==
    [fn |-> "chunk_text", pc |-> "call", text |-> text,
     max_chunk_size |-> cfg.max_chunk_size, overlap |-> cfg.overlap,
     chunks |-> <<>>]

InitText ==
    /\ InitPipeline
    /\ \E cfg \in TextConfigs, n \in 0..MaxTextLen :
         \E text \in [1..n -> TextChars] : frame = TextCall(cfg, text)

ChunkText ==
    /\ frame.fn = "chunk_text" /\ frame.pc = "call"
    /\ frame' = [frame EXCEPT !.pc = "done",
                   !.chunks = chunk_text(frame.text, frame.max_chunk_size,
                                         frame.overlap)]
    /\ UNCHANGED <<files, now, sess, runs, moved, db_failed, selection, queue>>

SpecText == InitText /\ [][ChunkText]_vars

---------------------------------------------------------------------------
(* services/vector_search/text_chunking.py: TextChunker._split_text        *)

\* text.rfind(ch, start, end) for a single character
rfind_char(text, ch, start, end) ==
    LET found == {i \in start..(end - 1) : i < Len(text) /\ text[i + 1] = ch}
    IN IF found = {} THEN -1 ELSE Maximum(found)

\* the end of the chunk that begins at start: start + chunk_size, moved
\* back, when the text goes on after it, to just after the last "." or,
\* failing that, the last "\n" of the window if it lies beyond half of the
\* chunk size, or else to just after the last space of the window
split_end(text, start, chunk_size) ==
    LET end == start + chunk_size
        sentence_end == rfind_char(text, ".", start, end)
        para_end == rfind_char(text, NL, start, end)
        space == rfind_char(text, " ", start, end)
    IN IF ~(end < Len(text)) THEN end
       ELSE IF sentence_end # -1 /\ sentence_end > start + (chunk_size \div 2)
       THEN sentence_end + 1
       ELSE IF para_end # -1 /\ para_end > start + (chunk_size \div 2)
       THEN para_end + 1
       ELSE IF space # -1 THEN space + 1
       ELSE end

\* text[start:end].strip(): the slice, end clipped to the text, without
\* the white space at its two ends
StrippedSlice(text, start, end) ==
    LET last == IF end < Len(text) THEN end ELSE Len(text)
        inked == {i \in (start + 1)..last : text[i] \notin {" ", NL}}
    IN IF inked = {} THEN <<>>
       ELSE SubSeq(text, CHOOSE i \in inked : \A j \in inked : i <= j,
                   Maximum(inked))

\* the characters of a text: a letter, a full stop, a space, a line break
SplitChars == {"a", ".", " ", NL}

\* chunk_size > chunk_overlap >= 0
SplitConfigs == {[chunk_size |-> 4, chunk_overlap |-> 0],
                 [chunk_size |-> 4, chunk_overlap |-> 1],
                 [chunk_size |-> 4, chunk_overlap |-> 2],
                 [chunk_size |-> 3, chunk_overlap |-> 1]}

\* a call of _split_text that has not run yet; `iterations` counts the
\* passes of the while loop
SplitCall(cfg, text) ==
    [fn |-> "_split_text", pc |-> "call", text |-> text,
     chunk_size |-> cfg.chunk_size, chunk_overlap |-> cfg.chunk_overlap,
     start |-> 0, iterations |-> 0, chunks |-> <<>>]

InitSplit ==
    /\ InitPipeline
    /\ \E cfg \in SplitConfigs, n \in 0..MaxTextLen :
         \E text \in [1..n -> SplitChars] : frame = SplitCall(cfg, text)

\* a text no longer than chunk_size is returned as the single chunk;
\* otherwise the loop is entered with start = 0
SplitEnter ==
    /\ frame.fn = "_split_text" /\ frame.pc = "call"
    /\ frame' = IF Len(frame.text) <= frame.chunk_size
                THEN [frame EXCEPT !.pc = "done", !.chunks = <<frame.text>>]
                ELSE [frame EXCEPT !.pc = "loop"]
    /\ UNCHANGED <<files, now, sess, runs, moved, db_failed, selection, queue>>

\* one pass of `while start < len(text)`: the end is found, the stripped
\* chunk is appended unless empty, and start becomes end - chunk_overlap;
\* the loop is left when that is <= 0 or >= len(text)
SplitStep ==
    /\ frame.fn = "_split_text" /\ frame.pc = "loop"
    /\ frame.iterations < MaxIterations
    /\ LET end == split_end(frame.text, frame.start, frame.chunk_size)
           chunk == StrippedSlice(frame.text, frame.start, end)
           start == end - frame.chunk_overlap
       IN frame' = [frame EXCEPT
                      !.iterations = @ + 1,
                      !.chunks = IF chunk = <<>> THEN @ ELSE Append(@, chunk),
                      !.start = start,
                      !.pc = IF start <= 0 \/ start >= Len(frame.text)
                             THEN "done" ELSE "loop"]
    /\ UNCHANGED <<files, now, sess, runs, moved, db_failed, selection, queue>>

NextSplit == SplitEnter \/ SplitStep

SpecSplit == InitSplit /\ [][NextSplit]_vars

---------------------------------------------------------------------------
(* Properties *)

AllIdle == \A w \in Workers : sess[w].pc = "idle"

\* the transitions of the file life cycle
AllowedTransitions == {<<"queued", "processing">>, <<"processing", "complete">>,
                       <<"processing", "error">>, <<"error", "queued">>}

\* C1: over any sequence of pipeline runs, a file's status changes only along
\* queued -> processing, processing -> complete, processing -> error and
\* error -> queued.
C1_OnlyLifecycleTransitions ==
    [][\A f \in FileIds :
          (files[f].exists /\ files'[f].status # files[f].status)
             => <<files[f].status, files'[f].status>> \in AllowedTransitions]_vars

\* C2: every processing run of an existing file moves it to processing and
\* adds exactly 1 to attempts, so once the runs are over (and the database
\* did not fail) a file's attempts equals the number of pipeline runs made
\* on it.
C2_AttemptsCountsRuns ==
    (AllIdle /\ ~db_failed) => \A f \in Existing : files[f].attempts = runs[f]

\* C3: a file in status error has a non-null error_message (the stringified
\* cause).
C3_ErrorHasMessage ==
    \A f \in Existing :
        files[f].status = "error" => files[f].error_message # None

\* C4: a run in which OCR and every later stage returned but zero chunks were
\* produced, or zero chunks were indexed, leaves the file in status error with
\* a message, never in status complete.
C4_ZeroChunksIsError ==
    [][\A w \in Workers :
          ( /\ sess[w].pc = "ufs_commit" /\ sess'[w].pc = "idle"
            /\ sess[w].finalized
            /\ (sess[w].chunks = 0 \/ sess[w].indexed = 0) )
          => /\ files'[sess[w].file_id].status = "error"
             /\ files'[sess[w].file_id].error_message # None]_vars

\* C5: a file in status complete has an indexed-chunks count recorded in its
\* metadata.
C5_CompleteHasIndexedCount ==
    \A f \in Existing :
        files[f].status = "complete"
           => /\ files[f].file_metadata.type = "dict"
              /\ files[f].file_metadata.keys
                    \cap {"indexed_chunks", "indexed_count"} # {}

\* C6: a file in status complete never has processed_at unset.
C6_CompleteHasProcessedAt ==
    \A f \in Existing :
        files[f].status = "complete" => files[f].processed_at # NullTime

\* C7: process_ocr_queue never lets an exception escape: whatever the message
\* and whatever fails, the status write of the except block included, every
\* invocation of the trigger that is over has returned normally.
C7_QueueTriggerReturns ==
    \A w \in Workers :
        sess[w].handler = "queue"
           => /\ sess[w].result # "raised"
              /\ sess[w].pc = "idle" => sess[w].result = "returned"

\* an invocation of the trigger returned although the status write in the
\* except block of process_document_from_queue raised
C7_Witness ==
    \E w \in Workers : /\ sess[w].handler = "queue"
                       /\ sess[w].pc = "idle"
                       /\ sess[w].result = "returned"
                       /\ sess[w].exc = GetFileTypeError
                       /\ sess[w].db_error = DbError

\* C8: no attempts increment is lost under concurrent processing: attempts
\* has grown by one for every move of the file to processing.
C8_NoLostIncrement ==
    \A f \in FileIds : files[f].attempts = moved[f]

\* C9: a file's attempts counter never decreases, whatever status updates
\* are made.
C9_AttemptsNeverDecreases ==
    [][\A f \in FileIds : files'[f].attempts >= files[f].attempts]_vars

\* the files the retry rule names for a budget and a cutoff
RetryEligible(max_attempts, cutoff_time) ==
    {f \in FileIds : /\ files[f].exists
                     /\ files[f].status = "error"
                     /\ files[f].attempts < max_attempts
                     /\ files[f].created_at > cutoff_time}

\* C10: get_failed_files returns exactly the files with status = error,
\* attempts < max_attempts and created_at > cutoff_time; with max_attempts = 3
\* a file in error inside the window is selected at attempts = 2 and not at
\* attempts = 3; a file in queued, processing or complete is never selected.
C10_RetrySelectionExact ==
    selection.called =>
        /\ \A f \in selection.result : files[f].status = "error"
        /\ selection.cutoff_time # NullTime =>
             /\ selection.result =
                   RetryEligible(selection.max_attempts, selection.cutoff_time)
             /\ \A f \in Existing :
                   ( /\ selection.max_attempts = 3
                     /\ files[f].status = "error"
                     /\ files[f].created_at > selection.cutoff_time )
                   => /\ files[f].attempts = 2 => f \in selection.result
                      /\ files[f].attempts = 3 => f \notin selection.result

\* a selection with max_attempts = 3 that took a file at attempts = 2 and left
\* out one at attempts = 3, both in error and inside the window
C10_Witness ==
    /\ selection.called
    /\ selection.max_attempts = 3
    /\ selection.cutoff_time # NullTime
    /\ \E f, g \in Existing :
          /\ files[f].status = "error" /\ files[f].attempts = 2
          /\ files[f].created_at > selection.cutoff_time
          /\ f \in selection.result
          /\ files[g].status = "error" /\ files[g].attempts = 3
          /\ files[g].created_at > selection.cutoff_time
          /\ g \notin selection.result

\* the file has used up the retry budget, or is older than the age cutoff
Abandoned(f) ==
    \/ files[f].attempts >= MAX_RETRY_ATTEMPTS
    \/ files[f].created_at <= now - MAX_AGE

\* C11: the retry budget bounds re-processing: a file whose processing fails
\* on every run is put on the queue at most MAX_RETRY_ATTEMPTS times in all,
\* and a file in error that has used up the budget, or is older than the age
\* cutoff, stays in error.
C11_RetryBudgetBounds ==
    [][\A f \in FileIds :
          /\ queue'[f].published <= MAX_RETRY_ATTEMPTS
          /\ (files[f].exists /\ files[f].status = "error" /\ Abandoned(f))
                => files'[f].status = "error"]_vars

BatchesInOrder(batches) ==
    \A k \in 1..Len(batches) :
        /\ batches[k].lo = (IF k = 1 THEN 1 ELSE batches[k - 1].hi + 1)
        /\ batches[k].hi >= batches[k].lo
        /\ batches[k].hi - batches[k].lo + 1 <= 1000

\* every document of 1..n was in a batch that was sent
AllBatchesSent(batches, n) ==
    IF n = 0 THEN batches = <<>>
    ELSE Len(batches) > 0 /\ batches[Len(batches)].hi = n

C14_LaterBatchesStillSent ==
    (frame.fn = "upload" /\ frame.pc # "call") =>
        AllBatchesSent(frame.batches, frame.total)

ChunkingDone == frame.fn = "_chunk_paragraphs" /\ frame.pc = "done"

\* C15: for every sequence of paragraphs and every max_chunk_size >=
\* min_chunk_size > 0, every paragraph chunk has text length <=
\* max_chunk_size, except possibly one trailing chunk into which a short
\* remainder was merged.
C15_ChunksWithinMaxSize ==
    ChunkingDone =>
        \A k \in 1..Len(frame.chunks) :
            \/ frame.chunks[k].len <= frame.max_chunk_size
            \/ k = Len(frame.chunks) /\ frame.merged

\* the ids of the non-blank paragraphs, in the order of the stable page sort
NonBlankIds(paragraphs) ==
    LET ps == SelectSeq(SortByPage(paragraphs, 1), LAMBDA p : ~p.blank)
    IN [k \in 1..Len(ps) |-> ps[k].id]

RECURSIVE AllParts(_, _)
AllParts(chunks, k) ==
    IF k > Len(chunks) THEN <<>> ELSE chunks[k].parts \o AllParts(chunks, k + 1)

\* C16: the paragraph strategy never emits a chunk shorter than
\* min_chunk_size unless it is the only paragraph chunk of the document: a
\* short trailing buffer is appended to the last emitted chunk, or emitted as
\* the single chunk when there is none, so every non-blank paragraph is in a
\* chunk and an input with a non-blank paragraph yields at least one chunk.
C16_NoShortChunkUnlessOnly ==
    ChunkingDone =>
        /\ \A k \in 1..Len(frame.chunks) :
              \/ frame.chunks[k].len >= frame.min_chunk_size
              \/ Len(frame.chunks) = 1
        /\ AllParts(frame.chunks, 1) = NonBlankIds(frame.paragraphs)
        /\ NonBlankIds(frame.paragraphs) # <<>> => Len(frame.chunks) >= 1

\* a short trailing buffer was merged into the chunk before it
C16_Witness ==
    /\ ChunkingDone
    /\ frame.merged
    /\ Len(frame.chunks) >= 1
    /\ \E i \in 1..Len(frame.paragraphs) :
          /\ ~frame.paragraphs[i].blank
          /\ frame.paragraphs[i].len < frame.min_chunk_size

\* paragraphs of 50, 900 and 900 characters on one page, limits 1000 / 100
WorkedExample ==
    /\ frame.fn = "_chunk_paragraphs"
    /\ frame.max_chunk_size = 1000 /\ frame.min_chunk_size = 100
    /\ frame.paragraphs = <<Paragraph(1, 50, FALSE, 1),
                            Paragraph(2, 900, FALSE, 1),
                            Paragraph(3, 900, FALSE, 1)>>

\* C17: with max_chunk_size = 1000 and min_chunk_size = 100, paragraphs of
\* 50, 900 and 900 characters on the same page give exactly 2 paragraph
\* chunks: paragraph 1 joined with paragraph 2, at most 1000 characters
\* long, and paragraph 3 alone.
C17_WorkedExampleTwoChunks ==
    (WorkedExample /\ frame.pc = "done") =>
        /\ Len(frame.chunks) = 2
        /\ frame.chunks[1].parts = <<1, 2>>
        /\ frame.chunks[1].len = 50 + SeparatorLen + 900
        /\ frame.chunks[1].len <= 1000
        /\ frame.chunks[2].parts = <<3>>
        /\ frame.chunks[2].len = 900

\* the worked example was chunked
C17_Witness == WorkedExample /\ frame.pc = "done" /\ Len(frame.chunks) = 2

\* C18: in the hybrid strategy a paragraph whose index a figure refers to (in
\* its elements or its caption's elements) never also appears as a
\* standalone paragraph chunk, also when its text equals the caption or
\* another referenced paragraph's text.
C18_ReferencedNeverStandalone ==
    (frame.fn = "chunk_document" /\ frame.strategy = "HybridChunkingStrategy"
        /\ frame.pc # "call") =>
        \A k \in 1..Len(frame.chunks) :
            frame.chunks[k].chunk_type = "paragraph"
               => frame.chunks[k].source \notin frame.referenced

\* C19: chunking is idempotent on ids: chunk_document run twice on the same
\* document object yields identical sequences of chunk ids, for
\* ChunkingService and for HybridChunkingStrategy, figures without an id and
\* figures with caption elements included.
C19_ChunkIdsIdempotent ==
    (frame.fn = "chunk_document" /\ frame.pc = "twice") =>
        frame.ids[1] = frame.ids[2]

\* the ids chunk_document gives the chunks of the frame's OCR output
DocumentChunkIds ==
    LET chunks == chunk_document(frame.paragraphs, DocumentId(1))
    IN {chunks[k].chunk_id : k \in 1..Len(chunks)}

Ceil(a, b) == (a + b - 1) \div b

\* _chunk_tables has returned the chunks of the one table it was given
TablesDone == frame.fn = "_chunk_tables" /\ frame.pc = "done"

\* the table was serialized to more than max_chunk_size characters
TableSplit ==
    Len(_table_to_text(frame.tables[1].content)) > frame.max_chunk_size

\* C21: when the serialized table is longer than max_chunk_size, the first
\* chunk holds max(1, row_count // ceil(serialized_len / max_chunk_size))
\* rows, also when serialized_len is a multiple of max_chunk_size.
C21_RowsPerChunkUsesCeiling ==
    (TablesDone /\ TableSplit /\ frame.tables[1].row_count >= 1) =>
        LET table == frame.tables[1]
            serialized_len == Len(_table_to_text(table.content))
            q == table.row_count \div Ceil(serialized_len, frame.max_chunk_size)
            first_chunk == frame.chunks[1].text
        IN /\ first_chunk.label = "rows"
           /\ first_chunk.last - first_chunk.first + 1
                 = IF q > 1 THEN q ELSE 1

\* text.split("\n"): the lines of a text
RECURSIVE SplitLines(_, _)
SplitLines(text, line) ==
    IF text = <<>> THEN <<line>>
    ELSE IF Head(text) = NL THEN <<line>> \o SplitLines(Tail(text), <<>>)
    ELSE SplitLines(Tail(text), Append(line, Head(text)))

\* the content lines of a boxed text: the lines that begin with a bar
ContentLines(text) ==
    LET lines == SplitLines(text, <<>>)
    IN {k \in 1..Len(lines) : lines[k] # <<>> /\ lines[k][1] = "|"}

\* the cells of a content line: the stretches between two bars
CellCount(line) == Cardinality({i \in 1..Len(line) : line[i] = "|"}) - 1

\* C22: the boxed text of a rectangular grid of row_count >= 1 rows and
\* column_count >= 1 columns has row_count content lines of column_count
\* cells each, so parsing it gives back row_count x column_count.
C22_BoxedTextKeepsDimensions ==
    (TablesDone /\ ~TableSplit /\ frame.tables[1].row_count >= 1) =>
        LET table == frame.tables[1]
            boxed == frame.chunks[1].text.body
            lines == SplitLines(boxed, <<>>)
        IN /\ Cardinality(ContentLines(boxed)) = table.row_count
           /\ \A k \in ContentLines(boxed) :
                 CellCount(lines[k]) = table.column_count

\* a table with text content: some cell of some row is not blank
HasText(table) ==
    \E r \in 1..Len(table.content) : \E c \in 1..Len(table.content[r]) :
        ~IsBlank(table.content[r][c])

\* the content with every empty or whitespace-only item taken out
WithoutBlankItems(structured_content) ==
    [paragraphs |-> SelectSeq(structured_content.paragraphs,
                              LAMBDA p : ~p.blank),
     tables |-> SelectSeq(structured_content.tables, HasText),
     figures |-> SelectSeq(structured_content.figures,
                           LAMBDA f : ~IsBlank(f.text)),
     handwriting |-> SelectSeq(structured_content.handwriting,
                               LAMBDA h : ~IsBlank(h.text))]

\* C23: an empty or whitespace-only paragraph, table, figure or handwriting
\* item gives no chunk and changes no other chunk: the chunks of a document
\* are those of the document without its blank items.
C23_BlankItemsGiveNoChunk ==
    (frame.fn = "chunk_document" /\ frame.pc = "chunked") =>
        frame.chunks =
            structured_chunks(WithoutBlankItems(frame.structured_content),
                              frame.max_chunk_size, frame.min_chunk_size)

\* the grid has (max row_index + 1) rows of (max column_index + 1) cells,
\* and every position of it inside the span of a cell holds that cell's
\* content
SpansExpanded(rows, table) ==
    LET cells == table.cells
        row_count == Maximum({cells[k].row_index : k \in 1..Len(cells)}) + 1
        column_count ==
            Maximum({cells[k].column_index : k \in 1..Len(cells)}) + 1
    IN /\ Len(rows) = row_count
       /\ \A r \in 1..Len(rows) : Len(rows[r]) = column_count
       /\ \A k \in 1..Len(cells) : \A p \in Covered(cells[k]) :
             (p[1] < row_count /\ p[2] < column_count /\ p[1] < Len(rows))
                => /\ p[2] < Len(rows[p[1] + 1])
                   /\ rows[p[1] + 1][p[2] + 1] = cells[k].content

\* C24: the cell grid that extract_document_content hands to the chunker
\* has (max row_index + 1) x (max column_index + 1) cells, and every
\* position covered by the span of a cell holds the content of that cell.
C24_SpansFillCoveredCells ==
    (frame.fn = "extract_document_content" /\ frame.pc = "done") =>
        SpansExpanded(frame.rows, frame.table)

\* C25: a search issued by a user (search_query, vector_search or
\* MockVectorDatabase.search_documents) returns no chunk that another user
\* indexed, whatever was indexed before.
C25_SearchReturnsOwnChunksOnly ==
    frame.fn = "search" =>
        \A result \in frame.search.returned :
            result.indexed_by = frame.search.user_id

\* the calls of the service that did not raise ResourceNotFoundError
Failed(outcome) == outcome.exc # None

\* C26: analyze_document calls the service at most MAX_RETRIES = 3 times;
\* it returns the result of the first call that succeeds and calls no more;
\* it sleeps once between two consecutive calls (k calls, k - 1 waits); and
\* it raises "Document analysis failed" only after the third failed call.
C26_AtMostThreeCalls ==
    frame.fn = "analyze_document" =>
        LET calls == Len(frame.outcomes)
        IN /\ calls <= MAX_RETRIES
           /\ \A k \in 1..(calls - 1) : Failed(frame.outcomes[k])
           /\ frame.pc = "attempt" => frame.waits = calls
           /\ frame.pc = "sleep" => frame.waits = calls - 1
           /\ frame.pc \in {"returned", "raised"} => frame.waits = calls - 1
           /\ frame.pc = "returned" =>
                 /\ frame.result = "to_dict"
                 /\ ~Failed(frame.outcomes[calls])
           /\ frame.raised = "Document analysis failed" =>
                 /\ calls = MAX_RETRIES
                 /\ \A k \in 1..calls :
                       /\ Failed(frame.outcomes[k])
                       /\ frame.outcomes[k].exc # "ResourceNotFoundError"

\* three calls failed, two waits lay between them, and the function raised
\* "Document analysis failed"
C26_Witness ==
    /\ frame.fn = "analyze_document"
    /\ frame.raised = "Document analysis failed"
    /\ Len(frame.outcomes) = 3 /\ frame.waits = 2

\* C27: the chunks of a table split by rows carry the row ranges 1..a,
\* a+1..b, ... up to row_count, without gap or overlap; a chunk holds at
\* most rows_per_chunk rows, and its text is the boxed text of exactly the
\* rows its label names.
C27_RowRangesPartition ==
    (TablesDone /\ TableSplit) =>
        LET table == frame.tables[1]
            chunks == frame.chunks
            n == rows_per_chunk(table.row_count,
                                _table_to_text(table.content),
                                frame.max_chunk_size)
        IN /\ Len(chunks) >= 1
           /\ chunks[1].text.first = 1
           /\ chunks[Len(chunks)].text.last = table.row_count
           /\ \A k \in 1..Len(chunks) :
                 /\ chunks[k].text.label = "rows"
                 /\ chunks[k].text.row_count = table.row_count
                 /\ chunks[k].text.first <= chunks[k].text.last
                 /\ chunks[k].text.last - chunks[k].text.first + 1 <= n
                 /\ chunks[k].text.body =
                       _table_to_text(SubSeq(table.content,
                                             chunks[k].text.first,
                                             chunks[k].text.last))
           /\ \A k \in 1..(Len(chunks) - 1) :
                 chunks[k + 1].text.first = chunks[k].text.last + 1

\* a table of four rows split into the chunks of rows 1-2 and 3-4
C27_Witness ==
    /\ TablesDone /\ TableSplit
    /\ Len(frame.chunks) = 2
    /\ frame.chunks[1].text.last = 2
    /\ frame.chunks[2].text.first = 3 /\ frame.chunks[2].text.last = 4

\* the 0-based positions in text[start:end] at which a sentence delimiter
\* ('. ', '! ' or '? ') begins and ends inside the window
DelimitersIn(text, start, end) ==
    {i \in start..(end - 2) :
        text[i + 1] \in {".", "!", "?"} /\ text[i + 2] = " "}

\* a chunk whose window ends before the text does is cut right after the
\* last sentence delimiter of the window, or at the window's end when the
\* window holds none
CutsAtNearestDelimiter ==
    \A k \in 1..Len(frame.chunks) :
        LET chunk == frame.chunks[k]
            window == chunk.start + frame.max_chunk_size
            delimiters == DelimitersIn(frame.text, chunk.start, window)
        IN window < Len(frame.text) =>
              chunk.end = IF delimiters = {} THEN window
                          ELSE Maximum(delimiters) + 2

\* every chunk after the first begins `overlap` characters before the end
\* of the chunk before it
StartsWithOverlap ==
    \A k \in 1..(Len(frame.chunks) - 1) :
        frame.chunks[k + 1].start = frame.chunks[k].end - frame.overlap

\* C28: where the text goes on past start + max_chunk_size, chunk_text cuts
\* right after the sentence delimiter nearest the max_chunk_size boundary
\* in the window, and at max_chunk_size only when the window has none; each
\* following chunk starts with the last `overlap` characters of the one
\* before.
C28_CutsAtNearestSentenceEnd ==
    (frame.fn = "chunk_text" /\ frame.pc = "done") =>
        (CutsAtNearestDelimiter /\ StartsWithOverlap)

\* C29: with chunk_size > chunk_overlap >= 0, every pass of the loop of
\* _split_text that is followed by another pass has moved start forward.
C29_StartStrictlyIncreases ==
    [][(frame.fn = "_split_text" /\ frame.pc = "loop" /\ frame'.pc = "loop")
          => frame'.start > frame.start]_vars


\* the length of the paragraphs `parts` joined by "\n\n"
RECURSIVE JoinedLen(_, _)
JoinedLen(paragraphs, parts) ==
    IF parts = <<>> THEN 0
    ELSE IF Len(parts) = 1 THEN paragraphs[parts[1]].len
    ELSE paragraphs[parts[1]].len + SeparatorLen
            + JoinedLen(paragraphs, Tail(parts))

\* `ids` names each non-blank paragraph once, by page, and in the order of
\* the input within a page
StablePageOrder(paragraphs, ids) ==
    /\ \A i \in 1..Len(paragraphs) :
          Cardinality({k \in 1..Len(ids) : ids[k] = i})
              = IF paragraphs[i].blank THEN 0 ELSE 1
    /\ \A k \in 1..Len(ids) : ids[k] \in 1..Len(paragraphs)
    /\ \A j, k \in 1..Len(ids) :
          j < k => \/ paragraphs[ids[j]].page < paragraphs[ids[k]].page
                   \/ /\ paragraphs[ids[j]].page = paragraphs[ids[k]].page
                      /\ ids[j] < ids[k]

\* C30: the paragraph strategy neither loses nor duplicates content: the
\* chunk texts in order, joined by a blank line, are the non-blank paragraphs
\* in stable page-sorted order joined by blank lines, each paragraph is in
\* exactly one chunk, and the page of a chunk is the page of its first
\* paragraph.
C30_NoContentLostOrDuplicated ==
    ChunkingDone =>
        /\ StablePageOrder(frame.paragraphs, AllParts(frame.chunks, 1))
        /\ \A k \in 1..Len(frame.chunks) :
              LET chunk == frame.chunks[k]
              IN /\ chunk.parts # <<>>
                 /\ chunk.len = JoinedLen(frame.paragraphs, chunk.parts)
                 /\ chunk.page = frame.paragraphs[chunk.parts[1]].page

\* paragraphs given out of page order end up in two chunks, one of them
\* holding two paragraphs
C30_Witness ==
    /\ ChunkingDone
    /\ Len(frame.chunks) >= 2
    /\ \E k \in 1..Len(frame.chunks) : Len(frame.chunks[k].parts) >= 2
    /\ \E i, j \in 1..Len(frame.paragraphs) :
          /\ i < j
          /\ ~frame.paragraphs[i].blank /\ ~frame.paragraphs[j].blank
          /\ frame.paragraphs[i].page > frame.paragraphs[j].page

====
